---- MODULE Spec2Model ----
(***************************************************************************)
(* A model of claudegram's AI-client core: the session registry of        *)
(* ClaudeClient / CodexClient (src/src/sdk/client.ts and its Codex twin),  *)
(* the run of one subprocess in executeCommand, the idle sweep, and the    *)
(* Telegram handlers of src/src/telegram/bot.ts that drive them.           *)
(*                                                                         *)
(* The host is one Node.js event loop: every handler below runs to         *)
(* completion, so each is one atomic action.  An `await` inside a bot      *)
(* handler ends the action and the continuation is a later action.         *)
(***************************************************************************)
EXTENDS Integers, Sequences, FiniteSets, TLC

VARIABLES
    backend,            \* config.aiBackend: which AIClient createAIClient built
    idleTimeoutMs,      \* this.idleTimeoutMs
    now,                \* Date.now(), in milliseconds since construction
    sessions,           \* this.sessions: Map<chatId, SessionState>
    nextUuid,           \* the next value randomUUID() returns (fresh each call)
    idleCheckInterval,  \* this.idleCheckInterval is armed
    idleCheckDue,       \* the time of its next expiry
    procs,              \* one record per sendMessage call, in call order
    sessionEnd,         \* per chat: the reasons onSessionEnd was called with
    pendingText,        \* bot: text handlers past their session check, per chat
    pendingImage,       \* bot: image handlers past their session check, per chat
    toolCall,           \* formatToolUse: the toolName and input of one call
    toolEvent,          \* formatToolUse: what the call returned
    lastProgressUpdate, \* bot: Date.now() of the last update sent, per chat
    progressCalls,      \* bot: the calls of sendProgressUpdate so far
    progressSent,       \* bot: the updates that were sent on to Telegram
    ptySessions,        \* PTY SessionManager: this.sessions, the PTY of each chat
    ptys,               \* PTY SessionManager: the PTYs spawned so far
    ptySessionEnd,      \* PTY SessionManager: the calls of onSessionEnd
    splitText,          \* splitMessage: the argument text
    splitMax,           \* splitMessage: the argument maxLength
    splitRemaining,     \* splitMessage: the local `remaining`
    splitChunks,        \* splitMessage: the local `chunks`
    splitDone           \* splitMessage: the loop has ended

formatVars == << toolCall, toolEvent >>
throttleVars == << lastProgressUpdate, progressCalls, progressSent >>
ptyVars == << ptySessions, ptys, ptySessionEnd >>
splitVars == << splitText, splitMax, splitRemaining, splitChunks, splitDone >>

\* The arguments and results of the functions that are followed call by call,
\* and the PTY SessionManager, which the AI-client bridge does not use.
callVars == << formatVars, throttleVars, ptyVars, splitVars >>

vars == << backend, idleTimeoutMs, now, sessions, nextUuid, idleCheckInterval,
           idleCheckDue, procs, sessionEnd, pendingText, pendingImage, callVars >>

botVars == << pendingText, pendingImage, callVars >>

clientVars == << backend, idleTimeoutMs, now, sessions, nextUuid, idleCheckInterval,
                 idleCheckDue, procs, sessionEnd >>

-----------------------------------------------------------------------------
(* Bounds of the model *)

Chats == {1, 2}
MaxSends == 2       \* sendMessage calls in one behaviour
MaxSessions == 2    \* sessions created in one behaviour
MaxTicks == 4       \* clock steps in one behaviour
MaxOut == 4         \* stdout tokens one subprocess writes
MaxErr == 1         \* stderr chunks one subprocess writes
MaxCommand == 102   \* characters of the longest command given to formatToolUse
MaxUpdates == 3     \* calls of sendProgressUpdate in one behaviour
MaxPtys == 3        \* PTYs spawned in one behaviour
MaxText == 6        \* characters of the longest text given to splitMessage
MaxSplit == 4       \* the largest maxLength given to splitMessage
MaxThrottleTicks == 2   \* clock steps of the progress throttle

(* Program constants *)

STILL_WORKING_INTERVAL_MS == 45000
IDLE_CHECK_INTERVAL_MS == 60000
PROGRESS_THROTTLE_MS == 10000

\* The clock advances in steps that divide both intervals.
TickMs == STILL_WORKING_INTERVAL_MS \div 3

\* idleTimeoutMs is a constructor argument (config.sessionIdleTimeoutMs).
IdleTimeouts == {2 * TickMs}

Backends == {"claude", "codex"}

-----------------------------------------------------------------------------
(* Strings.  A string is a sequence of tokens; a token stands for a piece  *)
(* of text whose inside the code never looks at.                           *)

SP == " "
NL == "\n"
Whitespace == {SP, NL}

RECURSIVE TrimStart(_)
TrimStart(s) ==
    IF s # << >> /\ Head(s) \in Whitespace THEN TrimStart(Tail(s)) ELSE s

RECURSIVE TrimEnd(_)
TrimEnd(s) ==
    IF s # << >> /\ s[Len(s)] \in Whitespace
    THEN TrimEnd(SubSeq(s, 1, Len(s) - 1)) ELSE s

\* String.prototype.trim
Trim(s) == TrimEnd(TrimStart(s))

\* String.prototype.split('\n'): the pieces between newlines, at least one.
RECURSIVE SplitLines(_, _)
SplitLines(s, cur) ==
    IF s = << >> THEN << cur >>
    ELSE IF Head(s) = NL THEN << cur >> \o SplitLines(Tail(s), << >>)
    ELSE SplitLines(Tail(s), Append(cur, Head(s)))

RECURSIVE Without(_, _)
Without(s, S) ==
    IF s = << >> THEN << >>
    ELSE IF Head(s) \in S THEN Without(Tail(s), S)
    ELSE << Head(s) >> \o Without(Tail(s), S)

-----------------------------------------------------------------------------
(* Subprocess output.  A token of stdout is whitespace, a newline, a piece *)
(* of text that is no JSON, or one complete JSON record; JsonOf gives the  *)
(* fields of a record that the parsers read.                               *)

NoBlocks == << >>
NoText == << >>

Rec(type, content, payload, text) ==
    [type |-> type, content |-> content, payload |-> payload, text |-> text]

\* The input of the tool calls in the records below: a short command.
ShortCommand == [command |-> << "cmd" >>, detail |-> << >>]
ToolBlock(name) ==
    [type |-> "tool_use", name |-> name, text |-> NoText, input |-> ShortCommand]
TextBlock == [type |-> "text", name |-> "", text |-> << "txt" >>, input |-> ShortCommand]
ThinkingBlock == [type |-> "thinking", name |-> "", text |-> NoText, input |-> ShortCommand]

\* Records of Claude's stream-json output.
ClaudeRecords == {"tool", "think", "text", "texttool", "plan", "start",
                  "result", "result0", "system"}
\* Records of Codex's --json output.
CodexRecords == {"call", "reasoning", "message", "cmessage", "assistant",
                 "cresult", "done", "complete", "event"}
JsonTokens == ClaudeRecords \cup CodexRecords
\* Text that JSON.parse rejects: "junk" is plain text, "{junk" starts with a brace.
JunkTokens == {"junk", "{junk"}
BraceTokens == JsonTokens \cup {"{junk"}

JsonOf(tok) ==
    CASE tok = "tool"      -> Rec("assistant", << ToolBlock("Bash") >>, NoText, NoText)
      [] tok = "think"     -> Rec("assistant", << ThinkingBlock >>, NoText, NoText)
      [] tok = "text"      -> Rec("assistant", << TextBlock >>, NoText, NoText)
      [] tok = "texttool"  -> Rec("assistant", << TextBlock, ToolBlock("Frob") >>, NoText, NoText)
      [] tok = "plan"      -> Rec("assistant", << ToolBlock("EnterPlanMode") >>, NoText, NoText)
      [] tok = "start"     -> Rec("content_block_start", << ToolBlock("Bash") >>, NoText, NoText)
      [] tok = "result"    -> Rec("result", NoBlocks, << "res" >>, NoText)
      [] tok = "result0"   -> Rec("result", NoBlocks, NoText, NoText)
      [] tok = "system"    -> Rec("system", NoBlocks, NoText, NoText)
      [] tok = "call"      -> Rec("function_call", << ToolBlock("shell") >>, NoText, NoText)
      [] tok = "reasoning" -> Rec("reasoning", NoBlocks, NoText, NoText)
      [] tok = "message"   -> Rec("message", << TextBlock >>, NoText, NoText)
      [] tok = "cmessage"  -> Rec("message", << ToolBlock("shell") >>, NoText, NoText)
      [] tok = "assistant" -> Rec("assistant", NoBlocks, NoText, << "txt" >>)
      [] tok = "cresult"   -> Rec("result", NoBlocks, << "res" >>, NoText)
      [] tok = "done"      -> Rec("done", NoBlocks, << "res" >>, NoText)
      [] tok = "complete"  -> Rec("complete", NoBlocks, << "res" >>, NoText)
      [] OTHER             -> Rec("event", NoBlocks, NoText, NoText)

\* JSON.parse(line): whitespace around the one value is allowed, anything else throws.
JsonValid(line) ==
    LET body == Without(line, Whitespace)
    IN  Len(body) = 1 /\ body[1] \in JsonTokens

JsonParse(line) == JsonOf(Without(line, Whitespace)[1])

-----------------------------------------------------------------------------
(* Progress events *)

NoEvent == [type |-> "null", message |-> << >>]
Event(type, message) == [type |-> type, message |-> message]

\* The length up to which a command is shown whole, and what is kept of a
\* longer one; a string is the sequence of its characters.
CommandLimit == 100
CommandKept == 97
Ellipsis == << ".", ".", "." >>

\* A shortening that cuts at the limit and adds the marker after it.
ShortenAfterLimit(command) ==
    IF Len(command) > CommandLimit
    THEN SubSeq(command, 1, CommandLimit) \o Ellipsis
    ELSE command

\* input.command.length > 100 ? input.command.substring(0, 97) + '...' : input.command
Shorten(command) ==
    IF Len(command) > CommandLimit
    THEN SubSeq(command, 1, CommandKept) \o Ellipsis
    ELSE command

\* The message for a shell tool.
RunningMessage(input) ==
    IF input.command # << >> THEN << "Running: " >> \o Shorten(input.command)
    ELSE << "Running command..." >>

\* The message of a tool that shows one field of its input (input.detail
\* stands for file_path, pattern, url, query, description, subject or status).
Showing(input, label, bare) ==
    IF input.detail # << >> THEN << label >> \o input.detail ELSE << bare >>

\* formatToolUse of the Claude client: the event of one tool_use block.
formatToolUse(toolName, input) ==
    CASE toolName = "Bash"            -> Event("tool_use", RunningMessage(input))
      [] toolName = "Read"            -> Event("tool_use", Showing(input, "Reading: ", "Reading file..."))
      [] toolName = "Write"           -> Event("tool_use", Showing(input, "Writing: ", "Writing file..."))
      [] toolName = "Edit"            -> Event("tool_use", Showing(input, "Editing: ", "Editing file..."))
      [] toolName = "Glob"            -> Event("tool_use", Showing(input, "Searching files: ", "Searching files..."))
      [] toolName = "Grep"            -> Event("tool_use", Showing(input, "Searching for: ", "Searching content..."))
      [] toolName = "WebFetch"        -> Event("tool_use", Showing(input, "Fetching: ", "Fetching URL..."))
      [] toolName = "WebSearch"       -> Event("tool_use", Showing(input, "Searching web: ", "Searching web..."))
      [] toolName = "Task"            -> Event("tool_use", Showing(input, "Spawning agent: ", "Spawning agent..."))
      [] toolName = "TaskCreate"      -> Event("task_update", Showing(input, "Creating task: ", "Creating task: New task"))
      [] toolName = "TaskUpdate"      -> Event("task_update", Showing(input, "Updating task -> ", "Updating task"))
      [] toolName = "TaskList"        -> Event("task_update", << "Reviewing task list..." >>)
      [] toolName = "EnterPlanMode"   -> Event("plan_start", << "Entering plan mode..." >>)
      [] toolName = "ExitPlanMode"    -> Event("plan_exit", << "Exiting plan mode - ready to implement" >>)
      [] toolName = "AskUserQuestion" -> Event("user_input_needed", << "Waiting for your input..." >>)
      [] OTHER                        -> Event("tool_use", << "Using ", toolName, "..." >>)

\* formatToolUse of the Codex client: always a tool_use event.
formatCodexToolUse(toolName, input) ==
    CASE toolName \in {"shell", "bash"} -> Event("tool_use", RunningMessage(input))
      [] toolName \in {"read_file", "read"} ->
            Event("tool_use", Showing(input, "Reading: ", "Reading file..."))
      [] toolName \in {"write_file", "write"} ->
            Event("tool_use", Showing(input, "Writing: ", "Writing file..."))
      [] toolName \in {"edit_file", "edit"} ->
            Event("tool_use", Showing(input, "Editing: ", "Editing file..."))
      [] toolName \in {"list_dir", "glob"} ->
            Event("tool_use", Showing(input, "Listing: ", "Listing directory..."))
      [] toolName \in {"search", "grep"} ->
            Event("tool_use", Showing(input, "Searching for: ", "Searching content..."))
      [] OTHER                          -> Event("tool_use", << "Using ", toolName, "..." >>)

\* The loop over event.message.content of parseStreamEvent: the first
\* tool_use or thinking block decides.
RECURSIVE FirstBlockEvent(_)
FirstBlockEvent(content) ==
    IF content = << >> THEN NoEvent
    ELSE IF Head(content).type = "tool_use" THEN formatToolUse(Head(content).name, Head(content).input)
    ELSE IF Head(content).type = "thinking" THEN Event("thinking", << "Thinking..." >>)
    ELSE FirstBlockEvent(Tail(content))

parseStreamEvent(line) ==
    IF ~JsonValid(line) THEN NoEvent
    ELSE LET event == JsonParse(line) IN
         IF event.type = "assistant" /\ event.content # NoBlocks
         THEN FirstBlockEvent(event.content)
         ELSE IF event.type = "content_block_start"
         THEN IF event.content # NoBlocks /\ event.content[1].type = "tool_use"
              THEN Event("tool_use", << "Starting ", event.content[1].name, "..." >>)
              ELSE NoEvent
         ELSE IF event.type = "result"
         THEN Event("result", << "Completed" >>)
         ELSE NoEvent

RECURSIVE FirstCodexBlockEvent(_)
FirstCodexBlockEvent(content) ==
    IF content = << >> THEN NoEvent
    ELSE IF Head(content).type \in {"tool_use", "function_call"}
    THEN formatCodexToolUse(Head(content).name, Head(content).input)
    ELSE FirstCodexBlockEvent(Tail(content))

parseCodexEvent(line) ==
    IF ~JsonValid(line) THEN NoEvent
    ELSE LET event == JsonParse(line) IN
         IF event.type \in {"function_call", "tool_call"}
         THEN formatCodexToolUse(IF event.content # NoBlocks
                                 THEN event.content[1].name ELSE "unknown tool",
                                 IF event.content # NoBlocks
                                 THEN event.content[1].input ELSE [command |-> << >>, detail |-> << >>])
         ELSE IF event.type \in {"thinking", "reasoning"}
         THEN Event("thinking", << "Thinking..." >>)
         ELSE IF event.type = "message" /\ event.content # NoBlocks
                 /\ FirstCodexBlockEvent(event.content) # NoEvent
         THEN FirstCodexBlockEvent(event.content)
         ELSE IF event.type \in {"result", "done", "complete"}
         THEN Event("result", << "Completed" >>)
         ELSE NoEvent

\* The text of the text blocks of a content array, in order.
RECURSIVE BlockTexts(_)
BlockTexts(content) ==
    IF content = << >> THEN << >>
    ELSE (IF Head(content).type = "text" THEN Head(content).text ELSE << >>)
         \o BlockTexts(Tail(content))

\* The "extract final result text" step of the Claude stdout handler.
claudeText(outputText, line) ==
    IF ~JsonValid(line) THEN outputText
    ELSE LET parsed == JsonParse(line) IN
         IF parsed.type = "result" /\ parsed.payload # NoText THEN parsed.payload
         ELSE IF parsed.type = "assistant" /\ parsed.content # NoBlocks
         THEN outputText \o BlockTexts(parsed.content)
         ELSE outputText

\* A text extraction that takes plain output without its line end.
codexTextUnterminated(outputText, line) ==
    IF ~JsonValid(line)
    THEN IF Head(line) \notin BraceTokens THEN outputText \o line
         ELSE outputText
    ELSE LET parsed == JsonParse(line) IN
         IF parsed.type \in {"result", "done"}
         THEN IF parsed.payload # NoText THEN parsed.payload ELSE outputText
         ELSE IF parsed.type = "message" /\ parsed.content # NoBlocks
         THEN outputText \o BlockTexts(parsed.content)
         ELSE IF parsed.type = "assistant" /\ parsed.text # NoText
         THEN outputText \o parsed.text
         ELSE outputText

\* The same step of the Codex stdout handler.
codexText(outputText, line) ==
    IF ~JsonValid(line)
    THEN IF Head(line) \notin BraceTokens THEN outputText \o line \o << NL >>
         ELSE outputText
    ELSE LET parsed == JsonParse(line) IN
         IF parsed.type \in {"result", "done"}
         THEN IF parsed.payload # NoText THEN parsed.payload ELSE outputText
         ELSE IF parsed.type = "message" /\ parsed.content # NoBlocks
         THEN outputText \o BlockTexts(parsed.content)
         ELSE IF parsed.type = "assistant" /\ parsed.text # NoText
         THEN outputText \o parsed.text
         ELSE outputText

parseEvent(be, line) ==
    IF be = "claude" THEN parseStreamEvent(line) ELSE parseCodexEvent(line)

extractText(be, outputText, line) ==
    IF be = "claude" THEN claudeText(outputText, line) ELSE codexText(outputText, line)

\* A handler that hands on tool_use events only.
IsProgressToolOnly(event) == event.type = "tool_use"

\* Whether an event parsed from a line is handed to onProgress.
IsProgress(event) == event.type # "result"

\* One pass of the `for (const line of lines)` loop of the stdout handler.
\* run: [reset, lastActivity, progress, outputText] of the run so far.
handleLine(be, chatId, run, line) ==
    IF Trim(line) = << >> THEN run
    ELSE LET event == parseEvent(be, line)
             seen  == event # NoEvent
             shown == seen /\ IsProgress(event)
         IN  [reset        |-> run.reset \/ seen,
              lastActivity |-> IF shown THEN event.message ELSE run.lastActivity,
              progress     |-> IF shown
                               THEN Append(run.progress,
                                           [chatId |-> chatId, type |-> event.type,
                                            message |-> event.message])
                               ELSE run.progress,
              outputText   |-> extractText(be, run.outputText, line)]

\* A loop that a line JSON.parse rejects ends: the rest of the chunk is lost.
RECURSIVE handleLinesUntilMalformed(_, _, _, _)
handleLinesUntilMalformed(be, chatId, run, lines) ==
    IF lines = << >> THEN run
    ELSE IF Trim(Head(lines)) # << >> /\ ~JsonValid(Head(lines)) THEN run
    ELSE handleLinesUntilMalformed(be, chatId, handleLine(be, chatId, run, Head(lines)),
                                   Tail(lines))

RECURSIVE handleLines(_, _, _, _)
handleLines(be, chatId, run, lines) ==
    IF lines = << >> THEN run
    ELSE handleLines(be, chatId, handleLine(be, chatId, run, Head(lines)), Tail(lines))

-----------------------------------------------------------------------------
(* The session registry *)

NoProcess == 0      \* session.activeProcess is undefined

NewSession(uuid, t) ==
    [sessionId |-> uuid, lastActivity |-> t,
     conversationStarted |-> FALSE, activeProcess |-> NoProcess]

hasSession(chatId) == chatId \in DOMAIN sessions

\* this.sessions.set(chatId, session)
SessionsSet(ss, chatId, session) ==
    [c \in DOMAIN ss \cup {chatId} |-> IF c = chatId THEN session ELSE ss[c]]

\* A delete that leaves the entries in the registry.
SessionsDeleteNone(ss, gone) == ss

\* this.sessions.delete(chatId), for each chatId of gone
SessionsDelete(ss, gone) == [c \in DOMAIN ss \ gone |-> ss[c]]

\* A handler that clears the slot and forgets that the conversation began.
ClearActiveForgets(ss, sid) ==
    [c \in DOMAIN ss |->
        IF ss[c].sessionId = sid
        THEN [ss[c] EXCEPT !.activeProcess = NoProcess, !.conversationStarted = FALSE]
        ELSE ss[c]]

\* A handler that clears the slot of every session of the registry.
ClearActiveEverywhere(ss, sid) ==
    [c \in DOMAIN ss |-> [ss[c] EXCEPT !.activeProcess = NoProcess]]

\* A handler that leaves session.activeProcess as it is.
ClearActiveNever(ss, sid) == ss

\* `session.activeProcess = undefined` through the session object that the
\* closure of executeCommand captured: it acts on that object whatever the
\* slot holds by now, and on nothing once the object has left the registry.
ClearActive(ss, sid) ==
    [c \in DOMAIN ss |->
        IF ss[c].sessionId = sid THEN [ss[c] EXCEPT !.activeProcess = NoProcess]
        ELSE ss[c]]

-----------------------------------------------------------------------------
(* Responses *)

NoResponse == [pending |-> TRUE]
Success(output) == [success |-> TRUE, output |-> output]
Failure(output, error) == [success |-> FALSE, output |-> output, error |-> error]

NoSessionError == << "No active session. Use /start to begin." >>
ExitError(code) == << "Process exited with code ", code >>
SpawnError(be) ==
    << IF be = "claude" THEN "Failed to spawn Claude: " ELSE "Failed to spawn Codex: ",
       "ENOENT" >>

\* Exit status 0, a non-zero status, and null: the process ended on a signal.
ExitCodes == {"0", "3", "null"}
\* The two branches of the 'close' handler.
SomeExitCodes == {"0", "3"}
ZeroExit == {"0"}

-----------------------------------------------------------------------------
(* Subprocesses.  procs[p] is the p-th sendMessage call: what it was given, *)
(* the ChildProcess it spawned (if it got that far) and the variables of    *)
(* the closure of executeCommand.                                           *)

Procs == 1 .. Len(procs)

Running(p) == procs[p].state = "running"

\* The argument list sendMessage builds, as far as the session decides it.
NewInvocation(be, sid) ==
    IF be = "claude" THEN << "--session-id", sid >> ELSE << "exec" >>
ResumeInvocation(be, sid) ==
    IF be = "claude" THEN << "--resume", sid >> ELSE << "exec", "resume", sid >>

\* A sendMessage that starts a new conversation whatever the session says.
InvocationAlwaysNew(be, session) == NewInvocation(be, session.sessionId)

\* sendMessage's choice between the two, from the session it found.
Invocation(be, session) ==
    IF session.conversationStarted
    THEN ResumeInvocation(be, session.sessionId)
    ELSE NewInvocation(be, session.sessionId)

\* A sendMessage without a session that failed as an exited process does.
RejectedAsExit(chatId, message) ==
    [chatId |-> chatId, spawned |-> FALSE, session |-> 0, args |-> << >>,
     stdin |-> message, state |-> "none", listeners |-> FALSE,
     timer |-> FALSE, timerDue |-> 0, startTime |-> 0,
     buffer |-> << >>, emitted |-> << >>, errs |-> 0,
     outputText |-> << >>, stderr |-> << >>, lastActivity |-> << >>,
     progress |-> << >>, signals |-> << >>, resolves |-> 1,
     response |-> Failure(<< >>, ExitError("1"))]

\* A sendMessage that found no session: it returns at once.
RejectedSend(chatId, message) ==
    [chatId |-> chatId, spawned |-> FALSE, session |-> 0, args |-> << >>,
     stdin |-> message, state |-> "none", listeners |-> FALSE,
     timer |-> FALSE, timerDue |-> 0, startTime |-> 0,
     buffer |-> << >>, emitted |-> << >>, errs |-> 0,
     outputText |-> << >>, stderr |-> << >>, lastActivity |-> << >>,
     progress |-> << >>, signals |-> << >>, resolves |-> 1,
     response |-> Failure(<< >>, NoSessionError)]

\* executeCommand up to its return: spawn, the timer armed, the message
\* written to stdin, the handlers attached.
SpawnedSend(chatId, message, sid, args, t) ==
    [chatId |-> chatId, spawned |-> TRUE, session |-> sid, args |-> args,
     stdin |-> message, state |-> "running", listeners |-> TRUE,
     timer |-> TRUE, timerDue |-> t + STILL_WORKING_INTERVAL_MS,
     startTime |-> t,
     buffer |-> << >>, emitted |-> << >>, errs |-> 0,
     outputText |-> << >>, stderr |-> << >>, lastActivity |-> << >>,
     progress |-> << >>, signals |-> << >>, resolves |-> 0,
     response |-> NoResponse]

\* proc.kill(signal): the signal goes out only while the process lives.
Kill(ps, p, signal) ==
    IF ps[p].state = "running"
    THEN [ps EXCEPT ![p].signals = Append(@, signal)]
    ELSE ps

\* A cleanup that removes the listeners and sends no signal.
cleanupWithoutSignal(ps, p) == [ps EXCEPT ![p].listeners = FALSE]

\* cleanupProcess: every listener of the process and its streams removed,
\* then SIGTERM.
cleanupProcess(ps, p) ==
    Kill([ps EXCEPT ![p].listeners = FALSE], p, "SIGTERM")

\* cleanupProcess on the active process of each session of gone.
RECURSIVE CleanupAll(_, _, _)
CleanupAll(ps, ss, gone) ==
    IF gone = {} THEN ps
    ELSE LET c == CHOOSE x \in gone : TRUE
             next == IF ss[c].activeProcess # NoProcess
                     THEN cleanupProcess(ps, ss[c].activeProcess) ELSE ps
         IN  CleanupAll(next, ss, gone \ {c})

-----------------------------------------------------------------------------
(* The handlers of executeCommand *)

\* resolve(response) of the promise of send p: the first call settles it.
resolve(ps, p, response) ==
    [ps EXCEPT ![p].resolves = @ + 1,
               ![p].response = IF @ = NoResponse THEN response ELSE @]

\* An 'error' handler that leaves the listeners of the process in place.
errorHandlerKeepsListeners(be, ps, p) ==
    resolve([ps EXCEPT ![p].timer = FALSE, ![p].state = "failed"],
            p, Failure(<< >>, SpawnError(be)))

\* The 'error' handler: the subprocess could not be spawned.  Node emits the
\* event from process.nextTick, before any other handler can run, so it is
\* part of the sendMessage step that spawned.
errorHandler(be, ps, p) ==
    LET off == [ps EXCEPT ![p].timer = FALSE, ![p].listeners = FALSE,
                          ![p].state = "failed"]
        killed == IF be = "claude" THEN Kill(off, p, "SIGTERM") ELSE off
    IN  resolve(killed, p, Failure(<< >>, SpawnError(be)))

\* A Response on 'close' that reports the exit status only.
closeResponseStatusOnly(code, outputText, stderr) ==
    IF code = "0" THEN Success(Trim(outputText))
    ELSE Failure(Trim(outputText), ExitError(code))

\* A Response on 'close' built in one piece: the error field always there.
closeResponseOnePiece(code, outputText, stderr) ==
    [success |-> code = "0", output |-> Trim(outputText),
     error |-> IF Trim(stderr) # << >> THEN Trim(stderr) ELSE ExitError(code)]

\* The Response the 'close' handler resolves with.
closeResponse(code, outputText, stderr) ==
    IF code = "0" THEN Success(Trim(outputText))
    ELSE Failure(Trim(outputText),
                 IF Trim(stderr) # << >> THEN Trim(stderr) ELSE ExitError(code))

\* A 'close' handler that leaves the still-working timer armed.
closeHandlerKeepsTimer(ps, p, code) ==
    resolve([ps EXCEPT ![p].listeners = FALSE],
            p, closeResponse(code, ps[p].outputText, ps[p].stderr))

\* The 'close' handler.
closeHandler(ps, p, code) ==
    resolve([ps EXCEPT ![p].timer = FALSE, ![p].listeners = FALSE],
            p, closeResponse(code, ps[p].outputText, ps[p].stderr))

\* The status 'close' reports for a process that never started.
SpawnFailedCode == "-2"

\* After the 'error' of a failed spawn Node emits 'close' for the same
\* process, to the listeners the 'error' handler has left.
closeAfterError(ps, p) ==
    IF ps[p].listeners THEN closeHandler(ps, p, SpawnFailedCode) ELSE ps

\* The stdout 'data' handler.
stdoutHandler(be, ps, p, data, t) ==
    LET lines == SplitLines(ps[p].buffer \o data, << >>)
        run   == handleLines(be, ps[p].chatId,
                             [reset |-> FALSE, lastActivity |-> ps[p].lastActivity,
                              progress |-> ps[p].progress,
                              outputText |-> ps[p].outputText],
                             SubSeq(lines, 1, Len(lines) - 1))
    IN  [ps EXCEPT ![p].buffer = lines[Len(lines)],
                   ![p].lastActivity = run.lastActivity,
                   ![p].progress = run.progress,
                   ![p].outputText = run.outputText,
                   ![p].timer = @ \/ run.reset,
                   ![p].timerDue = IF run.reset THEN t + STILL_WORKING_INTERVAL_MS ELSE @]

\* The message of a still-working event.
stillWorkingMessage(elapsedMs, lastActivity) ==
    LET workingMinutes == elapsedMs \div 60000
    IN  << "Still working..." >>
        \o (IF workingMinutes > 0 THEN << " (", workingMinutes, "m elapsed)" >> ELSE << >>)
        \o (IF lastActivity # << >> THEN << " Last: " >> \o lastActivity ELSE << >>)

\* The callback of the still-working setInterval.
stillWorkingHandler(ps, p, t) ==
    [ps EXCEPT ![p].progress =
                   Append(@, [chatId |-> ps[p].chatId, type |-> "working",
                              message |-> stillWorkingMessage(t - ps[p].startTime,
                                                              ps[p].lastActivity)]),
               ![p].timerDue = @ + STILL_WORKING_INTERVAL_MS]

-----------------------------------------------------------------------------
(* The client API.  Each operation is the whole method; it leaves the bot's *)
(* own variables to its caller.                                             *)

clientConfig == << backend, idleTimeoutMs >>

\* A createSession that names the session after its chat.
createSessionPerChat(chatId) ==
    /\ sessions' = IF hasSession(chatId) THEN sessions
                   ELSE SessionsSet(sessions, chatId, NewSession(chatId, now))
    /\ nextUuid' = IF hasSession(chatId) THEN nextUuid ELSE nextUuid + 1
    /\ UNCHANGED << clientConfig, now, idleCheckInterval, idleCheckDue, procs, sessionEnd >>

\* A createSession that starts over: a fresh session whatever the registry holds.
createSessionAnew(chatId) ==
    /\ sessions' = SessionsSet(sessions, chatId, NewSession(nextUuid, now))
    /\ nextUuid' = nextUuid + 1
    /\ UNCHANGED << clientConfig, now, idleCheckInterval, idleCheckDue, procs, sessionEnd >>

\* What createSession returns.
createSessionResult(chatId) ==
    IF hasSession(chatId) THEN sessions[chatId] ELSE NewSession(nextUuid, now)

createSession(chatId) ==
    /\ IF hasSession(chatId)
       THEN UNCHANGED << sessions, nextUuid >>
       ELSE /\ sessions' = SessionsSet(sessions, chatId, NewSession(nextUuid, now))
            /\ nextUuid' = nextUuid + 1
    /\ UNCHANGED << clientConfig, now, idleCheckInterval, idleCheckDue, procs, sessionEnd >>

\* sendMessage and, when a session exists, executeCommand up to its return.
\* spawnOk: whether the executable could be started.
sendMessage(chatId, message, spawnOk) ==
    /\ LET p == Len(procs) + 1 IN
       IF ~hasSession(chatId)
       THEN /\ procs' = Append(procs, RejectedSend(chatId, message))
            /\ UNCHANGED sessions
       ELSE LET session == sessions[chatId]
                spawned == Append(procs,
                               SpawnedSend(chatId, message, session.sessionId,
                                           Invocation(backend, session), now))
                started == [sessions EXCEPT ![chatId] =
                               [session EXCEPT !.lastActivity = now,
                                               !.conversationStarted = TRUE,
                                               !.activeProcess = p]]
            IN  IF spawnOk
                THEN /\ procs' = spawned
                     /\ sessions' = started
                ELSE /\ procs' = closeAfterError(errorHandler(backend, spawned, p), p)
                     /\ sessions' = ClearActive(started, session.sessionId)
    /\ UNCHANGED << clientConfig, now, nextUuid, idleCheckInterval, idleCheckDue, sessionEnd >>

\* An image message that carries the caption as given, even when there is none.
ImageMessageCaptionOnly(caption) == << "User sent an image: ", "path", NL >> \o caption

\* The message sendImage synthesizes from the path and the caption.
ImageMessage(caption) ==
    << "User sent an image: ", "path", NL >>
    \o (IF caption # << >> THEN caption ELSE << "Please inspect this image." >>)

sendImage(chatId, caption, spawnOk) == sendMessage(chatId, ImageMessage(caption), spawnOk)

\* A killSession that reports the end of the session as the sweep does.
killSessionNotifying(chatId, result) ==
    /\ IF ~hasSession(chatId)
       THEN /\ result = FALSE
            /\ UNCHANGED << sessions, procs, sessionEnd >>
       ELSE /\ procs' = CleanupAll(procs, sessions, {chatId})
            /\ sessions' = SessionsDelete(sessions, {chatId})
            /\ sessionEnd' = [sessionEnd EXCEPT ![chatId] = Append(@, "Session killed")]
            /\ result = TRUE
    /\ UNCHANGED << clientConfig, now, nextUuid, idleCheckInterval, idleCheckDue >>

\* A call of killSession(chatId) that returns result.
killSession(chatId, result) ==
    /\ IF ~hasSession(chatId)
       THEN /\ result = FALSE
            /\ UNCHANGED << sessions, procs >>
       ELSE /\ procs' = CleanupAll(procs, sessions, {chatId})
            /\ sessions' = SessionsDelete(sessions, {chatId})
            /\ result = TRUE
    /\ UNCHANGED << clientConfig, now, nextUuid, idleCheckInterval, idleCheckDue, sessionEnd >>

\* An interrupt that detaches the handlers of the subprocess before the signal.
interruptDetached(chatId, result) ==
    /\ IF ~hasSession(chatId)
       THEN /\ result = FALSE
            /\ UNCHANGED procs
       ELSE IF sessions[chatId].activeProcess = NoProcess
       THEN /\ result = FALSE
            /\ UNCHANGED procs
       ELSE /\ procs' = Kill([procs EXCEPT ![sessions[chatId].activeProcess].listeners = FALSE],
                             sessions[chatId].activeProcess, "SIGINT")
            /\ result = TRUE
    /\ UNCHANGED << clientConfig, now, sessions, nextUuid, idleCheckInterval,
                    idleCheckDue, sessionEnd >>

\* An interrupt that ends the session as killSession does.
interruptByTerminate(chatId, result) == killSession(chatId, result)

\* A call of interruptProcess(chatId) that returns result.
interruptProcess(chatId, result) ==
    /\ IF ~hasSession(chatId)
       THEN /\ result = FALSE
            /\ UNCHANGED procs
       ELSE IF sessions[chatId].activeProcess = NoProcess
       THEN /\ result = FALSE
            /\ UNCHANGED procs
       ELSE /\ procs' = Kill(procs, sessions[chatId].activeProcess, "SIGINT")
            /\ result = TRUE
    /\ UNCHANGED << clientConfig, now, sessions, nextUuid, idleCheckInterval,
                    idleCheckDue, sessionEnd >>

\* onSessionEnd(chatId, reason) for each chatId of gone
Notify(log, gone, reason) ==
    [c \in Chats |-> IF c \in gone THEN Append(log[c], reason) ELSE log[c]]

IdleReason == "Session timed out due to inactivity"
ShutdownReason == "Bridge shutting down"

\* A sweep that also takes the sessions exactly timeout old.
IdleFromTimeout(ss, t, timeout) == {c \in DOMAIN ss : t - ss[c].lastActivity >= timeout}

\* The sessions the sweep finds idle at time t.
Idle(ss, t, timeout) == {c \in DOMAIN ss : t - ss[c].lastActivity > timeout}

\* The callback of the setInterval of startIdleCheck.
idleCheck ==
    /\ idleCheckInterval
    /\ now >= idleCheckDue
    /\ LET gone == Idle(sessions, now, idleTimeoutMs) IN
       /\ procs' = CleanupAll(procs, sessions, gone)
       /\ sessions' = SessionsDelete(sessions, gone)
       /\ sessionEnd' = Notify(sessionEnd, gone, IdleReason)
    /\ idleCheckDue' = idleCheckDue + IDLE_CHECK_INTERVAL_MS
    /\ UNCHANGED << clientConfig, now, nextUuid, idleCheckInterval >>

\* A shutdown that ends the sessions and leaves the idle check running.
shutdownKeepsSweep ==
    /\ idleCheckInterval
    /\ procs' = CleanupAll(procs, sessions, DOMAIN sessions)
    /\ sessionEnd' = Notify(sessionEnd, DOMAIN sessions, ShutdownReason)
    /\ sessions' = SessionsDelete(sessions, DOMAIN sessions)
    /\ UNCHANGED << clientConfig, now, nextUuid, idleCheckInterval, idleCheckDue >>

\* shutdown(); index.ts calls it once, on the way out.
shutdown ==
    /\ idleCheckInterval
    /\ idleCheckInterval' = FALSE
    /\ procs' = CleanupAll(procs, sessions, DOMAIN sessions)
    /\ sessionEnd' = Notify(sessionEnd, DOMAIN sessions, ShutdownReason)
    /\ sessions' = SessionsDelete(sessions, DOMAIN sessions)
    /\ UNCHANGED << clientConfig, now, nextUuid, idleCheckDue >>

-----------------------------------------------------------------------------
(* Inputs *)

TextMessages == {<< "hello" >>}
Captions == {<< >>, << "look" >>}

\* What one 'data' event of stdout can carry.
ClaudeTokens == {"tool", "plan", "result", NL}
CodexTokens == {"call", "reasoning", "complete", NL}
Tokens(be) == IF be = "claude" THEN ClaudeTokens ELSE CodexTokens

\* Whole lines, one record each.
LineChunks(be) == {<< tok, NL >> : tok \in Tokens(be) \ {NL}}

\* Any split of the stream into pieces of one or two tokens.
AnyChunks(be) ==
    {<< a >> : a \in Tokens(be)} \cup {<< a, b >> : a \in Tokens(be), b \in Tokens(be)}

\* What one 'data' event of stderr can carry: text, or white space only.
StderrChunks == {<< "boom" >>, << "boom", NL >>, << SP >>}

\* Whole output lines, with text-bearing records and lines that are no JSON.
ClaudeLines == {"tool", "text", "result", "junk"}
CodexLines == {"call", "assistant", "done", "junk", "{junk"}
ExitLines(be) == IF be = "claude" THEN ClaudeLines ELSE CodexLines
\* One 'data' event with one line, or with two.
ExitChunks(be) ==
    {<< a, NL >> : a \in ExitLines(be)}
        \cup {<< a, NL, b, NL >> : a \in ExitLines(be), b \in ExitLines(be)}

\* Whole output lines of every kind: empty, white space, plain text, text
\* behind or before white space, broken records, a record with text after
\* it, and records.
OddLines(be) ==
    {<< >>, << SP >>, << "junk" >>, << "junk", SP >>, << SP, "junk" >>,
     << "{junk" >>, << SP, "{junk" >>}
        \cup (IF be = "claude" THEN {<< "tool" >>, << "text" >>, << "tool", "junk" >>}
              ELSE {<< "call" >>, << "assistant" >>, << "call", "junk" >>})
\* One 'data' event with one line.
OddChunks(be) == {line \o << NL >> : line \in OddLines(be)}

-----------------------------------------------------------------------------
(* Events of the environment: the subprocesses and the clock *)

\* stdout 'data'.  With the listeners removed the data goes nowhere.
StdoutData(p, data) ==
    /\ Running(p)
    /\ procs[p].listeners
    /\ procs' = [stdoutHandler(backend, procs, p, data, now)
                     EXCEPT ![p].emitted = @ \o data]
    /\ UNCHANGED << clientConfig, now, sessions, nextUuid, idleCheckInterval,
                    idleCheckDue, sessionEnd, botVars >>

\* stderr 'data'
StderrData(p, data) ==
    /\ Running(p)
    /\ procs[p].listeners
    /\ procs' = [procs EXCEPT ![p].stderr = @ \o data, ![p].errs = @ + 1]
    /\ UNCHANGED << clientConfig, now, sessions, nextUuid, idleCheckInterval,
                    idleCheckDue, sessionEnd, botVars >>

\* The subprocess ends and its streams close: 'close', to whoever listens.
ProcClose(p, code) ==
    /\ Running(p)
    /\ IF procs[p].listeners
       THEN /\ procs' = [closeHandler(procs, p, code) EXCEPT ![p].state = "exited"]
            /\ sessions' = ClearActive(sessions, procs[p].session)
       ELSE /\ procs' = [procs EXCEPT ![p].state = "exited"]
            /\ UNCHANGED sessions
    /\ UNCHANGED << clientConfig, now, nextUuid, idleCheckInterval, idleCheckDue,
                    sessionEnd, botVars >>

\* An expiry of the still-working timer of send p.
StillWorking(p) ==
    /\ procs[p].timer
    /\ now >= procs[p].timerDue
    /\ procs' = stillWorkingHandler(procs, p, now)
    /\ UNCHANGED << clientConfig, now, sessions, nextUuid, idleCheckInterval,
                    idleCheckDue, sessionEnd, botVars >>

\* A timer whose time has come runs before the clock moves on.
TimerDue ==
    \/ idleCheckInterval /\ now >= idleCheckDue
    \/ \E p \in Procs : procs[p].timer /\ now >= procs[p].timerDue

Tick ==
    /\ ~TimerDue
    /\ now' = now + TickMs
    /\ UNCHANGED << clientConfig, sessions, nextUuid, idleCheckInterval, idleCheckDue,
                    procs, sessionEnd, botVars >>

-----------------------------------------------------------------------------
(* The client under any caller *)

\* The bridge after construction.
BridgeInit ==
    /\ backend \in Backends
    /\ idleTimeoutMs \in IdleTimeouts
    /\ now = 0
    /\ sessions = << >>
    /\ nextUuid = 1
    /\ idleCheckInterval = TRUE
    /\ idleCheckDue = IDLE_CHECK_INTERVAL_MS
    /\ procs = << >>
    /\ sessionEnd = [c \in Chats |-> << >>]
    /\ pendingText = [c \in Chats |-> 0]
    /\ pendingImage = [c \in Chats |-> 0]

\* No call of formatToolUse is followed.
NoToolCall == [toolName |-> "", input |-> [command |-> << >>, detail |-> << >>]]
NoCalls == toolCall = NoToolCall /\ toolEvent = NoEvent

\* No progress update was sent: the Map is empty (0 stands for no entry,
\* as `get(chatId) || 0` reads it).
NoUpdates ==
    /\ lastProgressUpdate = [c \in Chats |-> 0]
    /\ progressCalls = 0
    /\ progressSent = << >>

\* The PTY SessionManager after construction.
NoPty == 0
NoPtys ==
    /\ ptySessions = [c \in Chats |-> NoPty]
    /\ ptys = << >>
    /\ ptySessionEnd = << >>

\* No call of splitMessage is followed.
NoSplit ==
    /\ splitText = << >>
    /\ splitMax = 1
    /\ splitRemaining = << >>
    /\ splitChunks = << >>
    /\ splitDone = TRUE

Init == BridgeInit /\ NoCalls /\ NoUpdates /\ NoPtys /\ NoSplit

CreateSession(chatId) == createSession(chatId) /\ UNCHANGED botVars
SendMessage(chatId, message, spawnOk) ==
    sendMessage(chatId, message, spawnOk) /\ UNCHANGED botVars
SendImage(chatId, caption, spawnOk) ==
    sendImage(chatId, caption, spawnOk) /\ UNCHANGED botVars
KillSession(chatId, result) == killSession(chatId, result) /\ UNCHANGED botVars
InterruptProcess(chatId, result) ==
    interruptProcess(chatId, result) /\ UNCHANGED botVars
Shutdown == shutdown /\ UNCHANGED botVars
IdleCheck == idleCheck /\ UNCHANGED botVars

\* The bounds of a behaviour.
CanCreate(c) == hasSession(c) \/ nextUuid <= MaxSessions
CanSend == Len(procs) < MaxSends
CanWrite(p, data) == Len(procs[p].emitted) + Len(data) <= MaxOut
CanErr(p) == procs[p].errs < MaxErr
CanTick == now < MaxTicks * TickMs
\* A subprocess is interrupted once: a second SIGINT only lengthens its log.
CanInterrupt(c) ==
    hasSession(c) /\ sessions[c].activeProcess # NoProcess
        => procs[sessions[c].activeProcess].signals = << >>

Next ==
    \/ \E c \in Chats : CanCreate(c) /\ CreateSession(c)
    \/ \E c \in Chats : \E m \in TextMessages : \E ok \in BOOLEAN :
          CanSend /\ SendMessage(c, m, ok)
    \/ \E c \in Chats : \E r \in BOOLEAN : KillSession(c, r)
    \/ \E c \in Chats : \E r \in BOOLEAN : CanInterrupt(c) /\ InterruptProcess(c, r)
    \/ \E p \in Procs : \E code \in SomeExitCodes : ProcClose(p, code)

Spec == Init /\ [][Next]_vars

-----------------------------------------------------------------------------
(* One run of executeCommand in full: one chat, the stdout stream cut into  *)
(* arbitrary pieces, stderr, the timers and the clock.                      *)

RunChats == {1}
MaxRunTicks == 3    \* clock steps in one behaviour: up to the first idle sweep

\* The send this specification follows: the first one.
FirstSend == procs = << >>

RunNext ==
    \/ \E c \in RunChats : FirstSend /\ CanCreate(c) /\ CreateSession(c)
    \/ \E c \in RunChats : \E m \in TextMessages : \E ok \in BOOLEAN :
          FirstSend /\ SendMessage(c, m, ok)
    \/ \E c \in RunChats : \E r \in BOOLEAN : KillSession(c, r)
    \/ \E p \in Procs : \E data \in AnyChunks(backend) :
          CanWrite(p, data) /\ StdoutData(p, data)
    \/ \E p \in Procs : \E code \in ExitCodes : ProcClose(p, code)
    \/ \E p \in Procs : StillWorking(p)
    \/ now < MaxRunTicks * TickMs /\ Tick

\* A subprocess does end: of itself, or on the signal it was sent.
RunFairness == WF_vars(\E p \in Procs : \E code \in ExitCodes : ProcClose(p, code))

RunSpec == Init /\ [][RunNext]_vars /\ RunFairness

-----------------------------------------------------------------------------
(* The end of one run: whole lines on stdout, stderr, and every way the     *)
(* subprocess can end of itself.  No clock.                                 *)

ExitNext ==
    \/ \E c \in RunChats : FirstSend /\ CanCreate(c) /\ CreateSession(c)
    \/ \E c \in RunChats : \E m \in TextMessages : \E ok \in BOOLEAN :
          FirstSend /\ SendMessage(c, m, ok)
    \/ \E p \in Procs : \E data \in ExitChunks(backend) :
          CanWrite(p, data) /\ StdoutData(p, data)
    \/ \E p \in Procs : \E data \in StderrChunks : CanErr(p) /\ StderrData(p, data)
    \/ \E p \in Procs : \E code \in ExitCodes : ProcClose(p, code)

ExitSpec == Init /\ [][ExitNext]_vars

-----------------------------------------------------------------------------
(* The registry over time: the clock, the idle sweep and the still-working  *)
(* timers, with two chats.                                                  *)

\* index.ts calls shutdown on the way out: no session is created after it; a
\* send the bot had already accepted may still arrive.
BridgeUp == idleCheckInterval

TimedNext ==
    \/ \E c \in Chats : BridgeUp /\ CanCreate(c) /\ CreateSession(c)
    \/ \E c \in Chats : \E m \in TextMessages : CanSend /\ SendMessage(c, m, TRUE)
    \/ Shutdown
    \/ \E p \in Procs : \E code \in ZeroExit : ProcClose(p, code)
    \/ \E p \in Procs : StillWorking(p)
    \/ IdleCheck
    \/ CanTick /\ Tick

TimedSpec == Init /\ [][TimedNext]_vars

-----------------------------------------------------------------------------
(* Two chats side by side: the registry operations of both, and the output *)
(* of their subprocesses in whole lines.                                    *)

\* One line of output: a tool-use record, or the final result.
PairChunks(be) ==
    IF be = "claude" THEN {<< "tool", NL >>, << "result", NL >>}
    ELSE {<< "call", NL >>, << "complete", NL >>}

\* Each chat sends once.
FirstSendOf(c) == \A p \in Procs : procs[p].chatId # c

PairNext ==
    \/ \E c \in Chats : CanCreate(c) /\ CreateSession(c)
    \/ \E c \in Chats : \E m \in TextMessages : \E ok \in BOOLEAN :
          FirstSendOf(c) /\ SendMessage(c, m, ok)
    \/ \E c \in Chats : \E r \in BOOLEAN : KillSession(c, r)
    \/ \E c \in Chats : \E r \in BOOLEAN : CanInterrupt(c) /\ InterruptProcess(c, r)
    \/ \E p \in Procs : \E data \in PairChunks(backend) :
          CanWrite(p, data) /\ StdoutData(p, data)
    \/ \E p \in Procs : \E code \in SomeExitCodes : ProcClose(p, code)

PairSpec == Init /\ [][PairNext]_vars

-----------------------------------------------------------------------------
(* Every way a session ends: killSession, the idle sweep and shutdown, with *)
(* two chats, the clock and one send fewer than the registry is given.      *)

CanSendFewer == Len(procs) + 1 < MaxSends

EndNext ==
    \/ \E c \in Chats : BridgeUp /\ CanCreate(c) /\ CreateSession(c)
    \/ \E c \in Chats : \E m \in TextMessages : CanSendFewer /\ SendMessage(c, m, TRUE)
    \/ \E c \in Chats : \E r \in BOOLEAN : KillSession(c, r)
    \/ Shutdown
    \/ \E p \in Procs : \E code \in ZeroExit : ProcClose(p, code)
    \/ \E p \in Procs : StillWorking(p)
    \/ IdleCheck
    \/ CanTick /\ Tick

EndSpec == Init /\ [][EndNext]_vars

-----------------------------------------------------------------------------
(* One send under the idle sweep: one chat, its first send and the output  *)
(* of the subprocess, the clock up to the first sweep, and a subprocess     *)
(* that ends sooner or later.                                               *)

SweepNext ==
    \/ \E c \in RunChats : FirstSend /\ CanCreate(c) /\ CreateSession(c)
    \/ \E c \in RunChats : \E m \in TextMessages : \E ok \in BOOLEAN :
          FirstSend /\ SendMessage(c, m, ok)
    \/ \E p \in Procs : \E data \in PairChunks(backend) :
          CanWrite(p, data) /\ StdoutData(p, data)
    \/ \E p \in Procs : \E code \in ExitCodes : ProcClose(p, code)
    \/ \E p \in Procs : StillWorking(p)
    \/ IdleCheck
    \/ CanTick /\ Tick

SweepSpec == Init /\ [][SweepNext]_vars /\ RunFairness

-----------------------------------------------------------------------------
(* The Telegram bot over an AIClient: the handlers of setupHandlers, for    *)
(* updates of authorized users.  A handler that awaits a reply before it    *)
(* calls the client is two steps.                                           *)

\* /start
BotStart(chatId) ==
    IF hasSession(chatId) THEN UNCHANGED vars
    ELSE createSession(chatId) /\ UNCHANGED botVars

\* /kill
BotKill(chatId) == \E r \in BOOLEAN : killSession(chatId, r) /\ UNCHANGED botVars

\* /interrupt
BotInterrupt(chatId) ==
    \E r \in BOOLEAN : interruptProcess(chatId, r) /\ UNCHANGED botVars

\* A text handler that starts a session for a chat that has none.
BotTextImplicit(chatId) ==
    /\ sessions' = IF hasSession(chatId) THEN sessions
                   ELSE SessionsSet(sessions, chatId, NewSession(nextUuid, now))
    /\ nextUuid' = IF hasSession(chatId) THEN nextUuid ELSE nextUuid + 1
    /\ pendingText' = [pendingText EXCEPT ![chatId] = @ + 1]
    /\ UNCHANGED << clientConfig, now, idleCheckInterval, idleCheckDue, procs,
                    sessionEnd, pendingImage, callVars >>

\* handleTextMessage up to `await ctx.reply('Working on it...')`
BotText(chatId) ==
    IF ~hasSession(chatId) THEN UNCHANGED vars
    ELSE /\ pendingText' = [pendingText EXCEPT ![chatId] = @ + 1]
         /\ UNCHANGED << clientVars, pendingImage, callVars >>

\* processClaudeMessage: the call of sendMessage
BotProcessMessage(chatId, message, spawnOk) ==
    /\ pendingText[chatId] > 0
    /\ sendMessage(chatId, message, spawnOk)
    /\ pendingText' = [pendingText EXCEPT ![chatId] = @ - 1]
    /\ UNCHANGED << pendingImage, callVars >>

\* handleImage up to `await ctx.reply('Image saved. Processing...')`
BotImage(chatId) ==
    IF ~hasSession(chatId) THEN UNCHANGED vars
    ELSE /\ pendingImage' = [pendingImage EXCEPT ![chatId] = @ + 1]
         /\ UNCHANGED << clientVars, pendingText, callVars >>

\* handleImage: the call of sendImage
BotProcessImage(chatId, caption, spawnOk) ==
    /\ pendingImage[chatId] > 0
    /\ sendImage(chatId, caption, spawnOk)
    /\ pendingImage' = [pendingImage EXCEPT ![chatId] = @ - 1]
    /\ UNCHANGED << pendingText, callVars >>

\* The chat the bot's updates come from.
BotChats == {1}

\* Messages accepted and not yet handed to the client.
Pending == pendingText[1] + pendingImage[1]

CanAccept == Len(procs) + Pending < MaxSends

BotNext ==
    \/ \E c \in BotChats : CanCreate(c) /\ BotStart(c)
    \/ \E c \in BotChats : BotKill(c)
    \/ \E c \in BotChats : CanInterrupt(c) /\ BotInterrupt(c)
    \/ \E c \in BotChats : CanAccept /\ BotText(c)
    \/ \E c \in BotChats : \E m \in TextMessages : \E ok \in BOOLEAN :
          BotProcessMessage(c, m, ok)
    \/ \E c \in BotChats : CanAccept /\ BotImage(c)
    \/ \E c \in BotChats : \E cap \in Captions : \E ok \in BOOLEAN :
          BotProcessImage(c, cap, ok)
    \/ \E p \in Procs : \E code \in SomeExitCodes : ProcClose(p, code)

BotSpec == Init /\ [][BotNext]_vars

-----------------------------------------------------------------------------
(* The bot behind its access control: updates of any Telegram user go      *)
(* through the middleware first.                                            *)

NoUser == 0         \* ctx.from is undefined: the update names no user

\* config.allowedUserIds, and the users updates can come from.
allowedUserIds == {1}
UserIds == {NoUser, 1, 2}

\* A whitelist that lets every update with a user through.
isAuthorizedAnyone(userId) == TRUE

\* AccessControl.isAuthorized
isAuthorized(userId) == userId \in allowedUserIds

UpdateKinds == {"start", "kill", "interrupt", "text", "photo"}

\* The handler Telegraf finds for an update that the middleware passed on.
Dispatch(chatId, kind) ==
    CASE kind = "start" -> BotStart(chatId)
      [] kind = "kill" -> BotKill(chatId)
      [] kind = "interrupt" -> BotInterrupt(chatId)
      [] kind = "text" -> BotText(chatId)
      [] kind = "photo" -> BotImage(chatId)

\* One update: the middleware, then the handler if it calls next().
BotUpdate(userId, chatId, kind) ==
    IF userId = NoUser \/ ~isAuthorized(userId)
    THEN UNCHANGED vars
    ELSE Dispatch(chatId, kind)

CanHandle(c, kind) ==
    CASE kind = "start" -> CanCreate(c)
      [] kind = "interrupt" -> CanInterrupt(c)
      [] kind \in {"text", "photo"} -> CanAccept
      [] OTHER -> TRUE

AccessNext ==
    \/ \E u \in UserIds : \E c \in BotChats : \E kind \in UpdateKinds :
          CanHandle(c, kind) /\ BotUpdate(u, c, kind)
    \/ \E c \in BotChats : \E m \in TextMessages : \E ok \in BOOLEAN :
          BotProcessMessage(c, m, ok)
    \/ \E c \in BotChats : \E cap \in Captions : \E ok \in BOOLEAN :
          BotProcessImage(c, cap, ok)
    \/ \E p \in Procs : \E code \in SomeExitCodes : ProcClose(p, code)

AccessSpec == Init /\ [][AccessNext]_vars

-----------------------------------------------------------------------------
(* The stdout handler line by line: one chat, its first send, and whole    *)
(* lines of every kind.                                                    *)

LineNext ==
    \/ \E c \in RunChats : FirstSend /\ CanCreate(c) /\ CreateSession(c)
    \/ \E c \in RunChats : \E m \in TextMessages : FirstSend /\ SendMessage(c, m, TRUE)
    \/ \E p \in Procs : \E data \in OddChunks(backend) :
          CanWrite(p, data) /\ StdoutData(p, data)
    \/ \E p \in Procs : ProcClose(p, "0")

LineSpec == Init /\ [][LineNext]_vars

-----------------------------------------------------------------------------
(* formatToolUse call by call: one tool name and one input, under either   *)
(* backend.                                                                *)

\* The characters of a command: the i-th differs from its neighbours.
Digits == << "0", "1", "2", "3", "4", "5", "6", "7", "8", "9" >>
CommandOf(n, from) == [i \in 1 .. n |-> Digits[((i + from) % Len(Digits)) + 1]]

\* Names of both tables and names of neither.
ToolNames == {"Bash", "bash", "shell", "Read", "read_file", "Grep", "grep",
              "TaskCreate", "EnterPlanMode", "AskUserQuestion", "NotebookEdit",
              "mcp__files__list"}

ToolCalls ==
    { [toolName |-> name, input |-> [command |-> CommandOf(n, from), detail |-> d]] :
        name \in ToolNames, n \in 0 .. MaxCommand, from \in {0, 1},
        d \in {<< >>, << "arg" >>} }

FormatInit ==
    /\ BridgeInit
    /\ NoUpdates
    /\ NoPtys
    /\ NoSplit
    /\ toolCall \in ToolCalls
    /\ toolEvent = NoEvent

\* The call formatToolUse(toolName, input) of the backend in use.
FormatTool ==
    /\ toolCall # NoToolCall
    /\ toolEvent = NoEvent
    /\ toolEvent' = IF backend = "claude"
                    THEN formatToolUse(toolCall.toolName, toolCall.input)
                    ELSE formatCodexToolUse(toolCall.toolName, toolCall.input)
    /\ UNCHANGED << clientVars, pendingText, pendingImage, toolCall, throttleVars, ptyVars, splitVars >>

FormatNext == FormatTool

FormatSpec == FormatInit /\ [][FormatNext]_vars

-----------------------------------------------------------------------------
(* The progress throttle of the bot: sendProgressUpdate under any stream   *)
(* of events for two chats, and a clock of half the throttle interval.     *)

\* Date.now(): the bridge runs long after the start of the epoch.
DateNow == 100 * PROGRESS_THROTTLE_MS + now

ProgressTypes == {"tool_use", "working", "plan_start", "plan_exit",
                  "user_input_needed"}
priorityEvents == {"user_input_needed", "plan_start", "plan_exit"}

\* A throttle that holds back the still-working events too.
IsThrottledWorkingToo(type, t, lastUpdate) ==
    type \notin priorityEvents /\ t - lastUpdate < PROGRESS_THROTTLE_MS

\* !isPriority && event.type !== 'working' && now - lastUpdate < PROGRESS_THROTTLE_MS
IsThrottled(type, t, lastUpdate) ==
    type \notin priorityEvents /\ type # "working" /\ t - lastUpdate < PROGRESS_THROTTLE_MS

\* sendProgressUpdate up to its first await: the early return, or the new
\* reference time and the message handed to Telegram.
sendProgressUpdate(chatId, type) ==
    /\ progressCalls' = progressCalls + 1
    /\ IF IsThrottled(type, DateNow, lastProgressUpdate[chatId])
       THEN UNCHANGED << lastProgressUpdate, progressSent >>
       ELSE /\ lastProgressUpdate' = [lastProgressUpdate EXCEPT ![chatId] = DateNow]
            /\ progressSent' = Append(progressSent,
                                      [chatId |-> chatId, type |-> type, at |-> DateNow])

SendProgressUpdate(chatId, type) ==
    /\ sendProgressUpdate(chatId, type)
    /\ UNCHANGED << clientVars, pendingText, pendingImage, formatVars, ptyVars, splitVars >>

CanUpdate == progressCalls < MaxUpdates

ThrottleTick ==
    /\ now < MaxThrottleTicks * (PROGRESS_THROTTLE_MS \div 2)
    /\ now' = now + PROGRESS_THROTTLE_MS \div 2
    /\ UNCHANGED << clientConfig, sessions, nextUuid, idleCheckInterval, idleCheckDue,
                    procs, sessionEnd, botVars >>

ThrottleNext ==
    \/ \E c \in Chats : \E type \in ProgressTypes : CanUpdate /\ SendProgressUpdate(c, type)
    \/ ThrottleTick

ThrottleSpec == Init /\ [][ThrottleNext]_vars

-----------------------------------------------------------------------------
(* The PTY SessionManager: getOrCreateSession, killSession and the exit   *)
(* events of the PTYs, for two chats.  ptySessions[c] is the PTY of the    *)
(* session of chat c; ptys[p] is the p-th PTY spawned.                     *)

PtyIds == 1 .. Len(ptys)
ptyHasSession(chatId) == ptySessions[chatId] # NoPty

\* getOrCreateSession: the session of the chat, or a new one on a new PTY
\* with its onData and onExit handlers.
getOrCreateSession(chatId) ==
    IF ptyHasSession(chatId) THEN UNCHANGED ptyVars
    ELSE /\ ptys' = Append(ptys, [chatId |-> chatId, state |-> "running", killed |-> FALSE])
         /\ ptySessions' = [ptySessions EXCEPT ![chatId] = Len(ptys) + 1]
         /\ UNCHANGED ptySessionEnd

\* killSession: ptyProcess.kill() and sessions.delete(chatId); the handlers
\* of the PTY stay registered.
ptyKillSession(chatId, result) ==
    /\ result = ptyHasSession(chatId)
    /\ IF ptyHasSession(chatId)
       THEN /\ ptys' = [ptys EXCEPT ![ptySessions[chatId]].killed = TRUE]
            /\ ptySessions' = [ptySessions EXCEPT ![chatId] = NoPty]
       ELSE UNCHANGED << ptys, ptySessions >>
    /\ UNCHANGED ptySessionEnd

\* The onExit handler of PTY p: this.sessions.delete(chatId) and
\* onSessionEnd(chatId, reason), with the chatId of the closure.
ptyOnExit(p) ==
    /\ ptys' = [ptys EXCEPT ![p].state = "exited"]
    /\ ptySessions' = [ptySessions EXCEPT ![ptys[p].chatId] = NoPty]
    /\ ptySessionEnd' = Append(ptySessionEnd, [chatId |-> ptys[p].chatId, pty |-> p])

notPtyVars == << clientVars, pendingText, pendingImage, formatVars, throttleVars, splitVars >>

GetOrCreateSession(chatId) ==
    /\ ptyHasSession(chatId) \/ Len(ptys) < MaxPtys
    /\ getOrCreateSession(chatId)
    /\ UNCHANGED notPtyVars

PtyKillSession(chatId, result) == ptyKillSession(chatId, result) /\ UNCHANGED notPtyVars

\* A PTY exits of itself or because it was killed; its handler runs once.
PtyExit(p) ==
    /\ ptys[p].state = "running"
    /\ ptyOnExit(p)
    /\ UNCHANGED notPtyVars

PtyNext ==
    \/ \E c \in Chats : GetOrCreateSession(c)
    \/ \E c \in Chats : \E r \in BOOLEAN : PtyKillSession(c, r)
    \/ \E p \in PtyIds : PtyExit(p)

PtySpec == Init /\ [][PtyNext]_vars

-----------------------------------------------------------------------------
(* splitMessage of the bot, one pass of its loop at a time.  A text is the *)
(* sequence of its characters.                                             *)

SplitChars == {"a", NL}
SplitTexts == UNION {[1 .. n -> SplitChars] : n \in 0 .. MaxText}

\* String.prototype.lastIndexOf(ch, fromIndex), counting from 0; -1 for none.
lastIndexOf(s, ch, fromIndex) ==
    LET found == {i \in 0 .. fromIndex : i < Len(s) /\ s[i + 1] = ch}
    IN  IF found = {} THEN -1
        ELSE CHOOSE i \in found : \A j \in found : j <= i

\* String.prototype.slice(from, to) and slice(from).
slice(s, from, to) == SubSeq(s, from + 1, to)
sliceFrom(s, from) == SubSeq(s, from + 1, Len(s))

\* replace(/^\n/, '')
DropLeadingNewline(s) == IF s # << >> /\ Head(s) = NL THEN Tail(s) ELSE s

\* A split at the last newline wherever it is.
splitIndexAtAnyNewline(s, maxLength) ==
    LET found == lastIndexOf(s, NL, maxLength)
    IN  IF found = -1 THEN maxLength ELSE found

\* The split point: the last newline up to maxLength, unless there is none
\* or it lies in the first half.
splitIndex(s, maxLength) ==
    LET found == lastIndexOf(s, NL, maxLength)
    IN  IF found = -1 \/ 2 * found < maxLength THEN maxLength ELSE found

SplitInit ==
    /\ BridgeInit /\ NoCalls /\ NoUpdates /\ NoPtys
    /\ splitText \in SplitTexts
    /\ splitMax \in 1 .. MaxSplit
    /\ splitRemaining = splitText
    /\ splitChunks = << >>
    /\ splitDone = FALSE

notSplitVars == << clientVars, pendingText, pendingImage, formatVars, throttleVars, ptyVars >>

\* while (remaining.length > 0) is false: return chunks.
SplitReturn ==
    /\ ~splitDone
    /\ Len(splitRemaining) = 0
    /\ splitDone' = TRUE
    /\ UNCHANGED << splitText, splitMax, splitRemaining, splitChunks, notSplitVars >>

\* The rest fits: push it and break.
SplitLast ==
    /\ ~splitDone
    /\ Len(splitRemaining) > 0
    /\ Len(splitRemaining) <= splitMax
    /\ splitChunks' = Append(splitChunks, splitRemaining)
    /\ splitDone' = TRUE
    /\ UNCHANGED << splitText, splitMax, splitRemaining, notSplitVars >>

\* One pass that cuts a chunk off.
SplitCut ==
    /\ ~splitDone
    /\ Len(splitRemaining) > splitMax
    /\ LET at == splitIndex(splitRemaining, splitMax)
       IN  /\ splitChunks' = Append(splitChunks, slice(splitRemaining, 0, at))
           /\ splitRemaining' = DropLeadingNewline(sliceFrom(splitRemaining, at))
    /\ UNCHANGED << splitText, splitMax, splitDone, notSplitVars >>

SplitNext == SplitReturn \/ SplitLast \/ SplitCut

\* The loop is straight-line code: it goes on until it returns.
SplitSpec == SplitInit /\ [][SplitNext]_vars /\ WF_vars(SplitNext)

-----------------------------------------------------------------------------
(* Properties *)

\* The sends of Procs that spawned a subprocess for session sid.
SendsOf(sid) == {p \in Procs : procs[p].spawned /\ procs[p].session = sid}

\* The signals sent to the subprocess of send p, as a set.
SignalsTo(p) == {procs[p].signals[i] : i \in 1 .. Len(procs[p].signals)}

\* killSession found the subprocess of the first send running and its
\* Response still pending: cleanupProcess has taken its listeners and
\* signalled it.
KilledInFlight ==
    /\ procs # << >>
    /\ Head(procs).spawned
    /\ ~Head(procs).listeners
    /\ "SIGTERM" \in {Head(procs).signals[i] : i \in 1 .. Len(Head(procs).signals)}
    /\ Head(procs).response = NoResponse

ResolvedAsFailure ==
    /\ procs # << >>
    /\ Head(procs).response # NoResponse
    /\ ~Head(procs).response.success

\* C1: a send that killSession interrupts in flight is eventually resolved,
\* with success=false; it does not stay pending forever.
KilledSendIsResolved == KilledInFlight ~> ResolvedAsFailure

\* C2: under the bot's handlers, no two subprocesses of one session run at
\* the same time.
OneRunningProcessPerSession ==
    \A p, q \in Procs :
        p # q /\ Running(p) /\ Running(q) => procs[p].session # procs[q].session

\* The sends made before this step are as they were.
EarlierSendsUnchanged == SubSeq(procs', 1, Len(procs)) = procs

\* A send that found no session stays as sendMessage left it: failed with
\* the no-session error, nothing spawned, no progress event.
RejectedStaysRejected ==
    \A p \in Procs :
        ~procs[p].spawned =>
            /\ procs[p].response = Failure(<< >>, NoSessionError)
            /\ procs[p].state = "none"
            /\ procs[p].progress = << >>

\* No send that spawned a subprocess ends with the no-session error.
NoSessionErrorIsDistinct ==
    \A p \in Procs :
        procs[p].spawned /\ procs[p].response # NoResponse /\ ~procs[p].response.success
            => procs[p].response.error # NoSessionError

SendWithoutSession(c, m, ok) ==
    ~hasSession(c) /\ SendMessage(c, m, ok) =>
        /\ sessions' = sessions
        /\ Len(procs') = Len(procs) + 1
        /\ EarlierSendsUnchanged
        /\ ~procs'[Len(procs')].spawned
        /\ procs'[Len(procs')].response = Failure(<< >>, NoSessionError)
        /\ procs'[Len(procs')].progress = << >>

\* C3: sendMessage for a chat without a session fails with the no-session
\* error, which no subprocess failure produces, spawns nothing, reports no
\* progress and leaves the registry as it was.
SendWithoutSessionFails ==
    /\ [](RejectedStaysRejected /\ NoSessionErrorIsDistinct)
    /\ [][\A c \in Chats : \A m \in TextMessages : \A ok \in BOOLEAN :
              SendWithoutSession(c, m, ok)]_vars

\* A send was rejected on a chat whose earlier send had a session: the
\* session was removed in between.
RejectedAfterRemoval ==
    \E p, q \in Procs :
        /\ q < p
        /\ procs[q].chatId = procs[p].chatId
        /\ procs[q].spawned
        /\ ~procs[p].spawned
        /\ ~hasSession(procs[p].chatId)

\* The invocation of each send: new for the first send of its session,
\* resume with the session's id for the later ones.
InvocationBySendOrder ==
    \A p \in Procs :
        procs[p].spawned =>
            LET sid == procs[p].session
                first == \A q \in SendsOf(sid) : p <= q
            IN  /\ procs[p].args = IF first THEN NewInvocation(backend, sid)
                                   ELSE ResumeInvocation(backend, sid)
                /\ backend = "claude" =>
                       procs[p].args = << IF first THEN "--session-id" ELSE "--resume", sid >>

\* A session is started exactly when a send was made on it.
StartedBySend ==
    \A c \in DOMAIN sessions :
        sessions[c].conversationStarted <=> SendsOf(sessions[c].sessionId) # {}

SessionIdKept ==
    \A c \in DOMAIN sessions \cap DOMAIN sessions' :
        sessions'[c].sessionId = sessions[c].sessionId

\* C4: the first send of a session uses the new-conversation invocation and
\* sets conversationStarted; each later send of that session resumes, with
\* the same sessionId; the sessionId of a session never changes.
FirstSendNewLaterSendsResume ==
    /\ [](InvocationBySendOrder /\ StartedBySend)
    /\ [][SessionIdKept]_vars

\* Two sends were made on one session: the first new, the second resumed.
SecondSendResumed ==
    \E p, q \in Procs :
        /\ q < p
        /\ procs[q].spawned /\ procs[p].spawned
        /\ procs[q].session = procs[p].session
        /\ procs[q].args = NewInvocation(backend, procs[q].session)
        /\ procs[p].args = ResumeInvocation(backend, procs[p].session)

CreateIsIdempotent(c) ==
    CreateSession(c) =>
        /\ createSessionResult(c) = sessions'[c]
        /\ \A d \in DOMAIN sessions : d \in DOMAIN sessions' /\ sessions'[d] = sessions[d]
        /\ DOMAIN sessions' = DOMAIN sessions \cup {c}
        /\ ~hasSession(c) =>
               /\ ~sessions'[c].conversationStarted
               /\ sessions'[c].activeProcess = NoProcess

\* C5: createSession on a chat that has a session returns that session and
\* changes none of its fields; on a chat without one, the new session has
\* conversationStarted=false and no active process.
CreateSessionIdempotent == [][\A c \in Chats : CreateIsIdempotent(c)]_vars

\* A session that a second createSession would have to leave alone: it is
\* started and has an active process.
StartedSessionRegistered ==
    \E c \in DOMAIN sessions :
        /\ sessions[c].conversationStarted
        /\ sessions[c].activeProcess # NoProcess
        /\ Running(sessions[c].activeProcess)

\* What killSession(c) returning r does in one step.
KillEffect(c, r) ==
    KillSession(c, r) =>
        IF ~hasSession(c)
        THEN r = FALSE /\ UNCHANGED << sessions, procs, sessionEnd >>
        ELSE /\ r = TRUE
             /\ sessions' = SessionsDelete(sessions, {c})
             /\ LET a == sessions[c].activeProcess IN
                \A p \in Procs :
                    procs'[p].signals =
                        IF p = a /\ Running(p)
                        THEN Append(procs[p].signals, "SIGTERM")
                        ELSE procs[p].signals

\* A chat enters the registry by createSession only.
OnlyCreateRegisters ==
    \A c \in Chats : ~hasSession(c) /\ hasSession(c)' => CreateSession(c)

\* C6: killSession returns false and changes nothing without a session;
\* with one it sends SIGTERM to the active subprocess (if any), removes the
\* session and returns true, and the chat has no session again until a
\* createSession.
KillSessionRemoves ==
    [][(\A c \in Chats : \A r \in BOOLEAN : KillEffect(c, r)) /\ OnlyCreateRegisters]_vars

\* killSession has ended a session whose subprocess was running.
KilledWhileRunning ==
    \E p \in Procs :
        /\ "SIGTERM" \in SignalsTo(p)
        /\ ~hasSession(procs[p].chatId)
        /\ Running(p)

\* What interruptProcess(c) returning r does in one step.
InterruptEffect(c, r) ==
    InterruptProcess(c, r) =>
        /\ sessions' = sessions
        /\ IF hasSession(c) /\ sessions[c].activeProcess # NoProcess
           THEN /\ r = TRUE
                /\ procs' = [procs EXCEPT ![sessions[c].activeProcess].signals =
                                              Append(@, "SIGINT")]
           ELSE r = FALSE /\ procs' = procs

\* C7: interruptProcess returns false and signals nothing when the chat has
\* no session or no active process; otherwise it sends SIGINT to the active
\* process and returns true; the session stays registered, unchanged.
InterruptKeepsSession ==
    [][\A c \in Chats : \A r \in BOOLEAN : InterruptEffect(c, r)]_vars

\* A running subprocess was interrupted and its session is still there.
InterruptedSessionRegistered ==
    \E c \in DOMAIN sessions :
        /\ sessions[c].activeProcess # NoProcess
        /\ "SIGINT" \in SignalsTo(sessions[c].activeProcess)
        /\ sessions[c].sessionId = procs[sessions[c].activeProcess].session
        /\ sessions[c].conversationStarted

\* What one idle sweep does to chat c.
SweepEffect(c) ==
    IF hasSession(c) /\ now - sessions[c].lastActivity > idleTimeoutMs
    THEN /\ ~hasSession(c)'
         /\ sessionEnd'[c] = Append(sessionEnd[c], IdleReason)
         /\ LET a == sessions[c].activeProcess IN
            a # NoProcess =>
                /\ ~procs'[a].listeners
                /\ procs'[a].signals = Append(procs[a].signals, "SIGTERM")
    ELSE /\ sessionEnd'[c] = sessionEnd[c]
         /\ hasSession(c) => hasSession(c)' /\ sessions'[c] = sessions[c]

\* C8: an idle sweep removes each session whose lastActivity is older than
\* the idle timeout, terminates its active subprocess and notifies the
\* session's end once, with the idle-timeout reason; it leaves every other
\* session, and the notifications of every other chat, as they were.
IdleSweepRemovesIdleOnly == [][IdleCheck => \A c \in Chats : SweepEffect(c)]_vars

\* A sweep has removed one chat's session, terminating its subprocess, and
\* has left the session of another chat whose age was exactly the timeout.
SweptOneKeptOne ==
    \E c, d \in Chats :
        /\ sessionEnd[c] = << IdleReason >>
        /\ \E p \in Procs : procs[p].chatId = c /\ "SIGTERM" \in SignalsTo(p)
        /\ sessionEnd[d] = << >>
        /\ hasSession(d)
        /\ idleCheckDue > IDLE_CHECK_INTERVAL_MS
        /\ sessions[d].lastActivity = IDLE_CHECK_INTERVAL_MS - idleTimeoutMs

\* The lines of a stream that a newline has ended.
CompleteLines(stream) ==
    LET lines == SplitLines(stream, << >>) IN SubSeq(lines, 1, Len(lines) - 1)

\* The progress events the lines give, in line order.
RECURSIVE EventsOfLines(_, _, _)
EventsOfLines(be, chatId, lines) ==
    IF lines = << >> THEN << >>
    ELSE LET line == Head(lines)
             event == parseEvent(be, line)
         IN  (IF Trim(line) # << >> /\ event # NoEvent /\ event.type # "result"
              THEN << [chatId |-> chatId, type |-> event.type, message |-> event.message] >>
              ELSE << >>)
             \o EventsOfLines(be, chatId, Tail(lines))

\* The events of a progress log that came from output lines.
RECURSIVE FromOutput(_)
FromOutput(progress) ==
    IF progress = << >> THEN << >>
    ELSE (IF Head(progress).type # "working" THEN << Head(progress) >> ELSE << >>)
         \o FromOutput(Tail(progress))

ProgressInLineOrder ==
    \A p \in Procs :
        FromOutput(procs[p].progress)
            = EventsOfLines(backend, procs[p].chatId, CompleteLines(procs[p].emitted))

NoProgressAfterResponse ==
    \A p \in Procs : procs[p].response # NoResponse => procs'[p].progress = procs[p].progress

\* C9: the progress events of a send that come from output lines are those
\* lines' events in line order, however the stream was cut into chunks; once
\* the Response is resolved the progress log of the send never grows.
ProgressOrderedBeforeResponse ==
    /\ []ProgressInLineOrder
    /\ [][NoProgressAfterResponse]_vars

\* A resolved send that reported two different events from its output and a
\* still-working event.
ResolvedAfterProgress ==
    \E p \in Procs :
        /\ procs[p].response # NoResponse
        /\ procs[p].state = "exited"
        /\ Len(FromOutput(procs[p].progress)) >= 2
        /\ FromOutput(procs[p].progress)[1] # FromOutput(procs[p].progress)[2]
        /\ \E i \in 1 .. Len(procs[p].progress) : procs[p].progress[i].type = "working"

\* The lines of lines that are not blank.
RECURSIVE NonBlank(_)
NonBlank(lines) ==
    IF lines = << >> THEN << >>
    ELSE (IF Trim(Head(lines)) # << >> THEN << Head(lines) >> ELSE << >>)
         \o NonBlank(Tail(lines))

\* No event of type 'result' is in any progress log.
NoResultEventShown ==
    \A p \in Procs :
        \A i \in 1 .. Len(procs[p].progress) : procs[p].progress[i].type # "result"

\* A send whose subprocess has ended with a result record (one the parser
\* turns into a 'result' event) that carries text has that text as the
\* output of its Response.
ResultPayloadInResponse ==
    \A p \in Procs :
        LET lines == NonBlank(CompleteLines(procs[p].emitted))
            last  == lines[Len(lines)]
        IN  /\ procs[p].state = "exited"
            /\ procs[p].response # NoResponse
            /\ lines # << >>
            /\ parseEvent(backend, last).type = "result"
            /\ JsonParse(last).payload # NoText
            => procs[p].response.output = Trim(JsonParse(last).payload)

\* C10: a result record (Claude 'result'; Codex 'result', 'done',
\* 'complete') never reaches the progress callback, and its payload is in
\* the text of the final Response.
ResultHiddenButInResponse == NoResultEventShown /\ ResultPayloadInResponse

\* A line that is one well-formed tool-use record of the backend.
IsToolUseRecord(be, line) ==
    /\ JsonValid(line)
    /\ LET r == JsonParse(line)
           tools == \E i \in 1 .. Len(r.content) : r.content[i].type = "tool_use"
       IN  IF be = "claude"
           THEN r.type \in {"assistant", "content_block_start"} /\ tools
           ELSE r.type \in {"function_call", "tool_call"} \/ (r.type = "message" /\ tools)

\* A stream of tool-use records and nothing else, each on a line of its own.
ToolRecordsOnly(be, stream) ==
    /\ stream # << >> => stream[Len(stream)] = NL
    /\ \A i \in 1 .. Len(CompleteLines(stream)) :
           IsToolUseRecord(be, CompleteLines(stream)[i])

\* No more events came from the output than it had lines.
AtMostOneEventPerLine ==
    \A p \in Procs :
        Len(FromOutput(procs[p].progress)) <= Len(NonBlank(CompleteLines(procs[p].emitted)))

\* The subprocess of send p exits with status 0 after N tool-use records.
ToolRunCounted(p) ==
    ProcClose(p, "0") /\ procs[p].listeners /\ ToolRecordsOnly(backend, procs[p].emitted) =>
        /\ procs'[p].response # NoResponse
        /\ procs'[p].response.success
        /\ Len(FromOutput(procs'[p].progress)) = Len(CompleteLines(procs[p].emitted))

\* C11: a line gives at most one progress event, and a subprocess that
\* writes N tool-use records, one per line, and exits with status 0 gives
\* a successful Response and exactly N progress events besides the
\* still-working ones.
ToolRecordsGiveAsManyEvents ==
    /\ []AtMostOneEventPerLine
    /\ [][\A p \in Procs : ToolRunCounted(p)]_vars

\* A send has succeeded after two different tool-use records and two events.
TwoToolRecordsTwoEvents ==
    \E p \in Procs :
        /\ procs[p].state = "exited"
        /\ procs[p].response # NoResponse
        /\ procs[p].response.success
        /\ ToolRecordsOnly(backend, procs[p].emitted)
        /\ Len(CompleteLines(procs[p].emitted)) = 2
        /\ CompleteLines(procs[p].emitted)[1] # CompleteLines(procs[p].emitted)[2]
        /\ Len(FromOutput(procs[p].progress)) = 2

\* The text the lines of a stream accumulate, from the empty text.
RECURSIVE TextOfLines(_, _, _)
TextOfLines(be, outputText, lines) ==
    IF lines = << >> THEN outputText
    ELSE TextOfLines(be,
                     IF Trim(Head(lines)) = << >> THEN outputText
                     ELSE extractText(be, outputText, Head(lines)),
                     Tail(lines))

Accumulated(p) == TextOfLines(backend, << >>, CompleteLines(procs[p].emitted))

\* The subprocess of send p ends with a status other than 0: the Response
\* as the claim words it, text and error stream as they are.
FailedExitVerbatim(p, code) ==
    ProcClose(p, code) /\ procs[p].listeners /\ code # "0" =>
        procs'[p].response =
            Failure(Accumulated(p),
                    IF procs[p].stderr # << >> THEN procs[p].stderr ELSE ExitError(code))

\* C12 as stated: a non-zero exit gives success=false, the accumulated text
\* as output, and the error stream's content, or the exit-status message
\* when the error stream is empty, as error.
NonZeroExitReportsVerbatim ==
    [][\A p \in Procs : \A code \in ExitCodes : FailedExitVerbatim(p, code)]_vars

FailedExitTrimmed(p, code) ==
    ProcClose(p, code) /\ procs[p].listeners /\ code # "0" =>
        procs'[p].response =
            Failure(Trim(Accumulated(p)),
                    IF Trim(procs[p].stderr) # << >> THEN Trim(procs[p].stderr)
                    ELSE ExitError(code))

\* C12 amended: a non-zero exit gives success=false, the accumulated text
\* trimmed as output, and as error the error stream's content trimmed, or
\* the exit-status message when nothing but white space is left of it.
NonZeroExitReportsTrimmed ==
    [][\A p \in Procs : \A code \in ExitCodes : FailedExitTrimmed(p, code)]_vars

\* A subprocess that had written text and "boom" to stderr has exited with
\* status 3, and the Response carries both.
FailedWithBoom ==
    \E p \in Procs :
        /\ procs[p].state = "exited"
        /\ procs[p].response = Failure(Trim(procs[p].outputText), << "boom" >>)
        /\ procs[p].outputText # << >>
        /\ procs[p].stderr = << "boom", NL >>

\* A resolved Response has an error field exactly when it is a failure.
ErrorIffFailure ==
    \A p \in Procs :
        procs[p].response # NoResponse =>
            ("error" \in DOMAIN procs[p].response <=> ~procs[p].response.success)

ZeroExitSucceeds(p) ==
    ProcClose(p, "0") /\ procs[p].listeners =>
        procs'[p].response = Success(Trim(Accumulated(p)))

\* C13: every Response, whichever path produced it, has an error field if
\* and only if success is false; exit status 0 gives success=true with the
\* accumulated text trimmed.
ErrorFieldIffFailed ==
    /\ []ErrorIffFailure
    /\ [][\A p \in Procs : ZeroExitSucceeds(p)]_vars

\* A send has succeeded with text that trimming shortened.
SucceededWithTrimmedText ==
    \E p \in Procs :
        /\ procs[p].state = "exited"
        /\ procs[p].response = Success(Trim(procs[p].outputText))
        /\ procs[p].outputText # Trim(procs[p].outputText)
        /\ procs[p].response.output # << >>
        /\ procs[p].stderr # << >>

\* A spawned send is unresolved while its subprocess runs and resolved, by
\* one call of resolve, once the subprocess has ended.
ResolvedWhenEnded ==
    \A p \in Procs :
        procs[p].spawned =>
            IF Running(p)
            THEN procs[p].resolves = 0 /\ procs[p].response = NoResponse
            ELSE procs[p].resolves = 1 /\ procs[p].response # NoResponse

ResponseKept ==
    \A p \in Procs : procs[p].response # NoResponse => procs'[p].response = procs[p].response

\* C14: a send whose subprocess ends of itself is resolved exactly once,
\* not before the subprocess has ended; the 'close' that follows a spawn
\* error resolves nothing more.
ResolvedOnceAtEnd == []ResolvedWhenEnded /\ [][ResponseKept]_vars

\* A spawn has failed, 'error' and 'close' are past, and the send was
\* resolved once, with the spawn error.
SpawnErrorResolvedOnce ==
    \E p \in Procs :
        /\ procs[p].state = "failed"
        /\ procs[p].resolves = 1
        /\ procs[p].response = Failure(<< >>, SpawnError(backend))

\* A send whose spawn failed has no timer, no listeners and no progress event.
FailedSpawnIsQuiet ==
    \A p \in Procs :
        procs[p].state = "failed" =>
            /\ ~procs[p].timer
            /\ ~procs[p].listeners
            /\ procs[p].progress = << >>

\* sendMessage(c, m) on a chat with a session, the executable missing.
SpawnFailure(c, m) ==
    hasSession(c) /\ SendMessage(c, m, FALSE) =>
        LET sent == procs'[Len(procs')] IN
        /\ Len(procs') = Len(procs) + 1
        /\ sent.spawned
        /\ sent.response = Failure(<< >>, SpawnError(backend))
        /\ sent.progress = << >>
        /\ hasSession(c)'
        /\ sessions'[c].activeProcess = NoProcess
        /\ sessions'[c].sessionId = sessions[c].sessionId
        /\ \A d \in Chats \ {c} : hasSession(d) <=> hasSession(d)'

\* sendMessage on a chat with a session gets as far as spawning.
SendAccepted(c, m, ok) ==
    hasSession(c) /\ SendMessage(c, m, ok) =>
        /\ procs'[Len(procs')].spawned
        /\ procs'[Len(procs')].session = sessions[c].sessionId

\* C15: a send whose subprocess cannot be spawned resolves with
\* success=false and the spawn error, emits no progress event, clears the
\* session's active-process slot and leaves the session registered; a later
\* sendMessage on it is accepted.
SpawnFailureKeepsSession ==
    /\ []FailedSpawnIsQuiet
    /\ [][\A c \in Chats : \A m \in TextMessages :
              SpawnFailure(c, m) /\ \A ok \in BOOLEAN : SendAccepted(c, m, ok)]_vars

\* After a send that failed to spawn, a second send on the same session is
\* running.
SentAgainAfterSpawnFailure ==
    \E p, q \in Procs :
        /\ p < q
        /\ procs[p].state = "failed"
        /\ procs[p].response = Failure(<< >>, SpawnError(backend))
        /\ procs[q].session = procs[p].session
        /\ Running(q)
        /\ hasSession(procs[q].chatId)
        /\ sessions[procs[q].chatId].activeProcess = q

\* The lines that are well-formed records.
RECURSIVE WellFormed(_)
WellFormed(lines) ==
    IF lines = << >> THEN << >>
    ELSE (IF JsonValid(Head(lines)) THEN << Head(lines) >> ELSE << >>)
         \o WellFormed(Tail(lines))

\* The lines that are well-formed records or, for Codex, plain text: not
\* blank and not starting with a brace.
RECURSIVE WellFormedOrPlain(_, _)
WellFormedOrPlain(be, lines) ==
    IF lines = << >> THEN << >>
    ELSE (IF \/ JsonValid(Head(lines))
             \/ be = "codex" /\ Trim(Head(lines)) # << >> /\ Head(Head(lines)) \notin BraceTokens
          THEN << Head(lines) >> ELSE << >>)
         \o WellFormedOrPlain(be, Tail(lines))

\* The events of a send are those of the well-formed lines of its stream.
EventsOfWellFormedLines ==
    \A p \in Procs :
        procs[p].progress
            = EventsOfLines(backend, procs[p].chatId, WellFormed(CompleteLines(procs[p].emitted)))

\* C16 as stated: a malformed line gives no event and no text and the lines
\* after it are parsed as if it had not been there.
MalformedLineLeavesNoTrace ==
    /\ EventsOfWellFormedLines
    /\ \A p \in Procs :
           procs[p].outputText
               = TextOfLines(backend, << >>, WellFormed(CompleteLines(procs[p].emitted)))

\* C16 amended: a malformed line gives no event, and no text unless the
\* backend is Codex and the line does not start with a brace; the lines
\* after it are parsed as if it had not been there.
MalformedLineIsSkipped ==
    /\ EventsOfWellFormedLines
    /\ \A p \in Procs :
           procs[p].outputText
               = TextOfLines(backend, << >>,
                             WellFormedOrPlain(backend, CompleteLines(procs[p].emitted)))

\* One chunk brought a malformed line that starts with a brace or is no
\* Codex output, and then a tool-use record: one event, no text.
OneEventAfterMalformedLine ==
    \E p \in Procs :
        /\ Len(CompleteLines(procs[p].emitted)) = 2
        /\ Len(procs[p].buffer) = 0
        /\ ~JsonValid(CompleteLines(procs[p].emitted)[1])
        /\ WellFormedOrPlain(backend, CompleteLines(procs[p].emitted))
               = << CompleteLines(procs[p].emitted)[2] >>
        /\ IsToolUseRecord(backend, CompleteLines(procs[p].emitted)[2])
        /\ Len(procs[p].progress) = 1
        /\ procs[p].outputText = << >>

\* C17: killSession never invokes the session-end callback; the idle sweep
\* and shutdown invoke it exactly once for each session they remove, under
\* that session's chatId, and no other step invokes it.
SessionEndOncePerRemoval ==
    [][\A c \in Chats :
           sessionEnd'[c]
               = IF hasSession(c) /\ ~hasSession(c)' /\ ~KillSession(c, TRUE)
                 THEN Append(sessionEnd[c],
                             IF IdleCheck THEN IdleReason ELSE ShutdownReason)
                 ELSE sessionEnd[c]]_vars

\* One chat was killed during its send and heard nothing; the other was
\* swept and heard of it once.
KilledSilentlySweptOnce ==
    \E c \in Chats : \E d \in Chats \ {c} :
        /\ ~hasSession(c) /\ ~hasSession(d)
        /\ sessionEnd[c] = << >>
        /\ \E p \in Procs : procs[p].chatId = c /\ "SIGTERM" \in SignalsTo(p)
        /\ sessionEnd[d] = << IdleReason >>

\* The session state of chat b: no element, or its SessionState.
SessionOf(ss, b) == {ss[c] : c \in DOMAIN ss \cap {b}}

\* A step of chat a: one of its API calls, or an event of one of its
\* subprocesses.
StepOf(a) ==
    \/ CreateSession(a)
    \/ \E m \in TextMessages : \E ok \in BOOLEAN : SendMessage(a, m, ok)
    \/ \E r \in BOOLEAN : KillSession(a, r)
    \/ \E r \in BOOLEAN : InterruptProcess(a, r)
    \/ \E p \in Procs :
          /\ procs[p].chatId = a
          /\ \/ \E data \in PairChunks(backend) : StdoutData(p, data)
             \/ \E code \in SomeExitCodes : ProcClose(p, code)

\* A step that changes the session state of chat b is a step of no other chat.
OtherSessionsUntouched ==
    \A b \in Chats :
        SessionOf(sessions', b) # SessionOf(sessions, b)
            => \A a \in Chats \ {b} : ~StepOf(a)

ProgressCarriesChatId ==
    \A p \in Procs : \A i \in 1 .. Len(procs[p].progress) :
        procs[p].progress[i].chatId = procs[p].chatId

\* C18: a step of chat A leaves the session state of every other chat B as
\* it was (existence, sessionId, conversationStarted, lastActivity and
\* activeProcess), and every progress event carries the chatId of the send
\* that produced it.
ChatsAreIndependent ==
    /\ []ProgressCarriesChatId
    /\ [][OtherSessionsUntouched]_vars

\* The send of one chat is still running, with its session's slot set, and
\* a later send of the other chat has delivered an event and its Response.
OtherChatServedMeanwhile ==
    \E p \in Procs : \E q \in Procs :
        /\ p < q
        /\ procs[p].chatId # procs[q].chatId
        /\ Running(p) /\ procs[p].response = NoResponse
        /\ hasSession(procs[p].chatId)
        /\ sessions[procs[p].chatId].activeProcess = p
        /\ procs[q].progress # << >>
        /\ procs[q].response # NoResponse
        /\ procs[q].response.success

\* A step in which a send of chat c completes: the 'close' handler of one of
\* the session's subprocesses runs, or the spawn of a new one fails.
Completes(c) ==
    /\ hasSession(c)
    /\ \/ \E p \in Procs : \E code \in SomeExitCodes :
              /\ procs[p].listeners
              /\ procs[p].session = sessions[c].sessionId
              /\ ProcClose(p, code)
       \/ \E m \in TextMessages : SendMessage(c, m, FALSE)

CompletionClearsSlot ==
    \A c \in Chats :
        Completes(c) =>
            /\ DOMAIN sessions' = DOMAIN sessions
            /\ sessions'[c].activeProcess = NoProcess
            /\ sessions'[c].sessionId = sessions[c].sessionId
            /\ sessions'[c].conversationStarted

StartedSessionResumes ==
    \A c \in Chats : \A m \in TextMessages : \A ok \in BOOLEAN :
        hasSession(c) /\ sessions[c].conversationStarted /\ SendMessage(c, m, ok) =>
            LET q == Len(procs) + 1 IN
            /\ procs'[q].spawned
            /\ procs'[q].session = sessions[c].sessionId
            /\ procs'[q].args = ResumeInvocation(backend, sessions[c].sessionId)

\* C19: when a send completes, by 'close' or by a spawn error, the session
\* is still registered with its slot cleared, the same sessionId and
\* conversationStarted true, and the next sendMessage of a session in that
\* state is accepted and resumes the conversation of that sessionId.
CompletedSendFreesSession ==
    /\ [][CompletionClearsSlot]_vars
    /\ [][StartedSessionResumes]_vars

\* A send completed with a Response, and the next send of the chat runs in
\* the same session, resumed, holding the slot.
ResumedAfterCompletion ==
    \E p \in Procs : \E q \in Procs :
        /\ p < q
        /\ procs[p].chatId = procs[q].chatId
        /\ procs[p].state = "exited" /\ procs[p].response # NoResponse
        /\ Running(q)
        /\ procs[q].session = procs[p].session
        /\ procs[q].args = ResumeInvocation(backend, procs[p].session)
        /\ hasSession(procs[q].chatId)
        /\ sessions[procs[q].chatId].activeProcess = q

\* The idle sweep has removed the session of a send that was in flight.
SweptInFlight ==
    /\ procs # << >>
    /\ Head(procs).spawned
    /\ ~Head(procs).listeners
    /\ "SIGTERM" \in SignalsTo(1)
    /\ Head(procs).response = NoResponse
    /\ ~hasSession(Head(procs).chatId)
    /\ sessionEnd[Head(procs).chatId] = << IdleReason >>

\* C20: a send whose session the idle sweep removes while it is in flight
\* is eventually resolved as failed; it is not left unresolved.
SweptSendIsResolved == SweptInFlight ~> ResolvedAsFailure

\* Send p was interrupted and has not been terminated since.
InterruptedOnly(p) == "SIGINT" \in SignalsTo(p) /\ "SIGTERM" \notin SignalsTo(p)

\* The exit of an interrupted subprocess resolves its send, as failed when
\* the status is not zero, keeps the registry and clears the slot of the
\* session object the send ran in.
InterruptedExitResolves ==
    \A p \in Procs : \A code \in SomeExitCodes :
        InterruptedOnly(p) /\ ProcClose(p, code) =>
            /\ procs'[p].response # NoResponse
            /\ procs'[p].response.success = (code = "0")
            /\ DOMAIN sessions' = DOMAIN sessions
            /\ \A c \in DOMAIN sessions :
                   sessions[c].sessionId = procs[p].session =>
                       /\ sessions'[c].activeProcess = NoProcess
                       /\ sessions'[c].sessionId = procs[p].session
                       /\ sessions'[c].conversationStarted

\* C21: when a subprocess exits after interruptProcess, its send is resolved
\* (as failed on a non-zero status), the registry is as it was with the
\* session's slot cleared, and the next sendMessage on the session resumes
\* under the same sessionId.
InterruptedSendEndsCleanly ==
    /\ [][InterruptedExitResolves]_vars
    /\ [][\A c \in Chats : \A r \in BOOLEAN :
               InterruptProcess(c, r) => sessions' = sessions]_vars
    /\ [][StartedSessionResumes]_vars

\* An interrupted send exited with a failed Response, and the next send of
\* the chat runs resumed in the same session.
ResumedAfterInterrupt ==
    \E p \in Procs : \E q \in Procs :
        /\ p < q
        /\ InterruptedOnly(p)
        /\ procs[p].state = "exited"
        /\ procs[p].response # NoResponse /\ ~procs[p].response.success
        /\ procs[q].chatId = procs[p].chatId
        /\ Running(q)
        /\ procs[q].args = ResumeInvocation(backend, procs[p].session)
        /\ hasSession(procs[q].chatId)
        /\ sessions[procs[q].chatId].activeProcess = q

\* A message or an image is accepted for the client only from a chat that
\* has a session, and the client is called only for an accepted one.
SendOnlyWithSession ==
    /\ \A c \in BotChats :
           (pendingText'[c] > pendingText[c] \/ pendingImage'[c] > pendingImage[c])
               => hasSession(c)
    /\ Len(procs') > Len(procs)
           => \E c \in BotChats :
                  \/ pendingText'[c] < pendingText[c]
                  \/ pendingImage'[c] < pendingImage[c]

\* A chat gets a session by /start only, and /start leaves a session that
\* exists as it is.
OnlyStartCreates ==
    \A c \in BotChats :
        /\ ~hasSession(c) /\ hasSession(c)' =>
               BotStart(c) /\ sessions' = SessionsSet(sessions, c, NewSession(nextUuid, now))
        /\ hasSession(c) /\ BotStart(c) => sessions' = sessions
        /\ ~hasSession(c) /\ (BotText(c) \/ BotImage(c)) => UNCHANGED vars

\* C22: in the bot a text message or an image for a chat without a session
\* creates no session and calls neither sendMessage nor sendImage; only
\* /start creates a session, and /start on a chat that has one changes nothing.
SessionsByStartOnly == [][SendOnlyWithSession /\ OnlyStartCreates]_vars

\* The chat has lost its session after a send, and the bot can take the
\* next message: it will find no session.
MessageFindsNoSession ==
    \E c \in BotChats :
        /\ ~hasSession(c)
        /\ procs # << >>
        /\ Pending = 0
        /\ CanAccept

\* C23: an update of a user who is not in the whitelist, or of no user,
\* changes nothing: the registry, the subprocesses and the bot's pending
\* work are as they were.
UnauthorizedUpdateIgnored ==
    [][\A u \in UserIds : \A c \in BotChats : \A kind \in UpdateKinds :
           (u = NoUser \/ u \notin allowedUserIds) /\ BotUpdate(u, c, kind)
               => UNCHANGED vars]_vars

\* A send is running in a chat's session, where /kill or /interrupt of a
\* user outside the whitelist would show if it were handled.
SessionBusyAmongStrangers ==
    \E c \in BotChats :
        /\ UserIds \ (allowedUserIds \cup {NoUser}) # {}
        /\ hasSession(c)
        /\ sessions[c].activeProcess # NoProcess
        /\ Running(sessions[c].activeProcess)
        /\ procs[sessions[c].activeProcess].signals = << >>

\* createSession for a chat without a session registers one that has not
\* started a conversation, has no active process, and whose sessionId no
\* send so far and no registered session has used.
CreatedAfresh ==
    \A c \in Chats :
        ~hasSession(c) /\ CreateSession(c) =>
            /\ hasSession(c)'
            /\ ~sessions'[c].conversationStarted
            /\ sessions'[c].activeProcess = NoProcess
            /\ \A p \in Procs : procs[p].session # sessions'[c].sessionId
            /\ \A d \in DOMAIN sessions : sessions[d].sessionId # sessions'[c].sessionId

\* The first send of a session starts a new conversation.
FirstSendStartsConversation ==
    \A c \in Chats : \A m \in TextMessages : \A ok \in BOOLEAN :
        hasSession(c) /\ ~sessions[c].conversationStarted /\ SendMessage(c, m, ok) =>
            procs'[Len(procs) + 1].args = NewInvocation(backend, sessions[c].sessionId)

\* C24: a session created for a chat whose session was ended keeps nothing
\* of it: conversationStarted false, no active process, a sessionId that
\* differs from every earlier one, and a first send that starts a new
\* conversation.
RecreatedSessionIsFresh ==
    /\ [][CreatedAfresh]_vars
    /\ [][FirstSendStartsConversation]_vars

\* The chat's session was swept, and the first send of the session created
\* after it runs as a new conversation.
FreshConversationAfterSweep ==
    \E c \in DOMAIN sessions : \E q \in Procs :
        /\ sessionEnd[c] = << IdleReason >>
        /\ procs[q].chatId = c
        /\ Running(q)
        /\ sessions[c].activeProcess = q
        /\ sessions[c].sessionId = procs[q].session
        /\ procs[q].args = NewInvocation(backend, procs[q].session)

\* The subprocesses that hold the slot of a session and are running.
ActiveRunning == {sessions[c].activeProcess : c \in DOMAIN sessions} \cap {p \in Procs : Running(p)}

\* shutdown clears the interval of the idle check, sends SIGTERM to the
\* running subprocess in each session's slot and to no other, detaching its
\* handlers, reports each session once, and empties the registry.
ShutdownEffect ==
    Shutdown =>
        /\ ~idleCheckInterval'
        /\ sessions' = << >>
        /\ \A c \in Chats : ~hasSession(c)'
        /\ \A c \in Chats :
               sessionEnd'[c] = IF hasSession(c) THEN Append(sessionEnd[c], ShutdownReason)
                                ELSE sessionEnd[c]
        /\ Len(procs') = Len(procs)
        /\ \A p \in Procs :
               IF p \in ActiveRunning
               THEN /\ procs'[p].signals = Append(procs[p].signals, "SIGTERM")
                    /\ ~procs'[p].listeners
               ELSE procs'[p].signals = procs[p].signals

\* Once the interval is cleared it stays so: no sweep runs, no session ends.
AfterShutdown ==
    ~idleCheckInterval =>
        /\ ~idleCheckInterval'
        /\ ~IdleCheck
        /\ sessionEnd' = sessionEnd
        /\ sessions' = << >>

\* C25: shutdown stops the idle sweep, terminates the active subprocess of
\* every session, reports every session once and empties the registry;
\* after it no chat has a session and the sweep never runs again.
ShutdownEndsEverything ==
    /\ [][ShutdownEffect]_vars
    /\ [][AfterShutdown]_vars
    /\ [](~idleCheckInterval => sessions = << >>)

\* Shutdown came with two sessions, one of them with a running send: both
\* were reported once, the send was terminated, and the time of the next
\* idle check has come since.
ShutDownWithTwoSessions ==
    /\ ~idleCheckInterval
    /\ sessions = << >>
    /\ \A c \in Chats : sessionEnd[c] = << ShutdownReason >>
    /\ \E p \in Procs : "SIGTERM" \in SignalsTo(p) /\ ~procs[p].listeners
    /\ now >= idleCheckDue

\* The message an image stands for: the path, then the caption or, without
\* one, the default instruction.
PathThenCaption(cap) ==
    << "User sent an image: ", "path", NL >>
        \o (IF cap = << >> THEN << "Please inspect this image." >> ELSE cap)

\* The step is the step sendMessage takes with that message: it fails for
\* want of a session, or spawns and marks the conversation started.
ImageSentAsMessage(c, cap, ok) ==
    LET q == Len(procs) + 1 IN
    /\ sendMessage(c, PathThenCaption(cap), ok)
    /\ procs'[q].stdin = PathThenCaption(cap)
    /\ IF hasSession(c)
       THEN /\ procs'[q].spawned
            /\ procs'[q].args = Invocation(backend, sessions[c])
            /\ sessions'[c].conversationStarted
       ELSE /\ procs'[q].response = Failure(<< >>, NoSessionError)
            /\ sessions' = sessions

\* C26: sendImage with a caption, or with none, is sendMessage with the
\* message that holds the path and then the caption or the default
\* instruction: the same no-session failure, the same spawn, the same
\* change of conversationStarted.
SendImageIsSendMessage ==
    [][\A c \in BotChats : \A cap \in Captions : \A ok \in BOOLEAN :
           BotProcessImage(c, cap, ok) => ImageSentAsMessage(c, cap, ok)]_vars

\* An image without a caption runs as the first send of its session, with
\* the default instruction.
ImageRunsWithDefaultInstruction ==
    \E c \in DOMAIN sessions : \E p \in Procs :
        /\ sessions[c].activeProcess = p
        /\ sessions[c].conversationStarted
        /\ Running(p)
        /\ procs[p].args = NewInvocation(backend, sessions[c].sessionId)
        /\ procs[p].stdin = PathThenCaption(<< >>)

\* A sendMessage on a session stamps it with the time of the call.
SendStampsSession ==
    \A c \in RunChats : \A m \in TextMessages : \A ok \in BOOLEAN :
        hasSession(c) /\ SendMessage(c, m, ok) => sessions'[c].lastActivity = now

\* Output that gives a progress event stamps the session of its send.
OutputStampsSession ==
    \A p \in Procs : \A data \in PairChunks(backend) :
        /\ StdoutData(p, data)
        /\ Len(procs'[p].progress) > Len(procs[p].progress)
        /\ hasSession(procs[p].chatId)
        => sessions'[procs[p].chatId].lastActivity = now

\* C27: a session's lastActivity is the current time after every
\* sendMessage on it and after every output line of its subprocess that
\* gives a progress event.
LastActivityFollowsOutput == [][SendStampsSession /\ OutputStampsSession]_vars

\* Send p has ended: its subprocess is gone, or it was never spawned, or
\* the client has terminated it.
Ended(p) ==
    \/ ~Running(p)
    \/ "SIGTERM" \in SignalsTo(p)

\* C28: once a send has ended, by exit, spawn error, killSession, idle
\* sweep or shutdown, its still-working timer and its listeners are
\* released and no progress event is delivered for it any more.
EndedSendIsSilent ==
    /\ [](\A p \in Procs : Ended(p) => ~procs[p].timer /\ ~procs[p].listeners)
    /\ [][\A p \in Procs : Ended(p) => procs'[p].progress = procs[p].progress]_vars

\* C29: when the Response of a send is resolved, every piece of output
\* received has been handed to the parser: the partial-line buffer is empty.
ResolvedWithBufferDrained ==
    \A p \in Procs : procs[p].response # NoResponse => procs[p].buffer = << >>

\* The message of the last event of es that is no still-working event.
LastRealMessage(es) ==
    LET real == {i \in 1 .. Len(es) : es[i].type # "working"}
    IN  IF real = {} THEN << >>
        ELSE es[CHOOSE i \in real : \A j \in real : j <= i].message

\* A line that gives a progress event starts the quiet interval anew.
QuietIntervalRestarts ==
    \A p \in Procs : \A data \in AnyChunks(backend) :
        StdoutData(p, data) /\ Len(procs'[p].progress) > Len(procs[p].progress)
            => procs'[p].timer /\ procs'[p].timerDue = now + STILL_WORKING_INTERVAL_MS

\* The timer fires while the subprocess runs, when the quiet interval has
\* just elapsed; it is due again one interval later; the event ends with
\* the message of the last real progress event, if there was one.
StillWorkingWhenQuiet ==
    \A p \in Procs :
        StillWorking(p) =>
            LET e == procs'[p].progress[Len(procs'[p].progress)]
                last == LastRealMessage(procs[p].progress)
            IN  /\ Running(p)
                /\ now = procs[p].timerDue
                /\ procs'[p].timerDue = now + STILL_WORKING_INTERVAL_MS
                /\ Len(procs'[p].progress) = Len(procs[p].progress) + 1
                /\ e.type = "working"
                /\ Len(e.message) >= Len(last)
                /\ SubSeq(e.message, Len(e.message) - Len(last) + 1, Len(e.message)) = last

\* C30: during a send a still-working event is emitted when 45 s have
\* passed since the send started or since the last line that gave an event,
\* again at every further expiry until an event arrives or the process
\* exits, and it carries the message of the last real progress event.
StillWorkingWhileQuiet == [][QuietIntervalRestarts /\ StillWorkingWhenQuiet]_vars

\* How often signal is in the log of signals sent to send p.
TimesSignalled(p, signal) ==
    Cardinality({i \in 1 .. Len(procs[p].signals) : procs[p].signals[i] = signal})

\* The number of session-end notifications for the chats of cs.
RECURSIVE Notifications(_)
Notifications(cs) ==
    IF cs = {} THEN 0
    ELSE LET c == CHOOSE x \in cs : TRUE
         IN  Len(sessionEnd[c]) + Notifications(cs \ {c})

\* No subprocess is sent SIGTERM twice, and there are no more notifications
\* than sessions that were created and are gone.
NothingEndedTwice ==
    /\ \A p \in Procs : TimesSignalled(p, "SIGTERM") <= 1
    /\ Notifications(Chats) + Cardinality(DOMAIN sessions) <= nextUuid - 1

\* A sweep leaves no idle session behind, and no session that was not idle
\* is gone after it.
SweepIsComplete ==
    IdleCheck =>
        /\ \A c \in DOMAIN sessions' : now - sessions'[c].lastActivity <= idleTimeoutMs
        /\ \A c \in DOMAIN sessions \ DOMAIN sessions' :
               now - sessions[c].lastActivity > idleTimeoutMs

\* C31: however killSession, the idle sweep, shutdown, createSession and
\* the exits of subprocesses interleave, no subprocess gets the terminate
\* signal twice, no removed session is reported twice, and each sweep
\* removes every idle session.
NoDoubleTermination ==
    /\ []NothingEndedTwice
    /\ [][SweepIsComplete]_vars

\* Both chats' sessions were swept together, each reported once; one had a
\* running send, which got the signal once, and shutdown came after.
SweptBothThenShutDown ==
    /\ ~idleCheckInterval
    /\ \A c \in Chats : sessionEnd[c] = << IdleReason >>
    /\ \E p \in Procs : TimesSignalled(p, "SIGTERM") > 0

\* Line is a result record that carries text.
IsResultWithPayload(be, line) ==
    /\ JsonValid(line)
    /\ parseEvent(be, line) # NoEvent
    /\ parseEvent(be, line).type = "result"
    /\ JsonParse(line).payload # NoText

\* The text after the lines, when each result record with a payload
\* replaces what was gathered and every other line does what it does.
RECURSIVE TextWithResultsReplacing(_, _, _)
TextWithResultsReplacing(be, outputText, lines) ==
    IF lines = << >> THEN outputText
    ELSE TextWithResultsReplacing(be,
             IF Trim(Head(lines)) = << >> THEN outputText
             ELSE IF IsResultWithPayload(be, Head(lines)) THEN JsonParse(Head(lines)).payload
             ELSE extractText(be, outputText, Head(lines)),
             Tail(lines))

\* C32: a result record with a payload replaces the text gathered so far,
\* text of assistant records is appended in order of arrival, and so a
\* send whose last text-bearing record is a result record resolves with
\* exactly that record's trimmed payload.
ResultReplacesText ==
    \A p \in Procs :
        /\ procs[p].outputText
               = TextWithResultsReplacing(backend, << >>, CompleteLines(procs[p].emitted))
        /\ procs[p].state = "exited" /\ procs[p].response # NoResponse
               => procs[p].response.output = Trim(procs[p].outputText)

\* C33: a shell tool with a command is reported as 'Running: ' followed by
\* the command, whole when it has at most 100 characters and otherwise cut to
\* 100 characters of which the last three are the ellipsis; a tool name that
\* the backend's table does not hold is reported as 'Using <name>...'.
ShellTools(be) == IF be = "claude" THEN {"Bash"} ELSE {"shell", "bash"}

TableTools(be) ==
    IF be = "claude"
    THEN {"Bash", "Read", "Write", "Edit", "Glob", "Grep", "WebFetch", "WebSearch",
          "Task", "EnterPlanMode", "ExitPlanMode", "TaskCreate", "TaskUpdate",
          "TaskList", "AskUserQuestion"}
    ELSE {"shell", "bash", "read_file", "read", "write_file", "write", "edit_file",
          "edit", "list_dir", "glob", "search", "grep"}

Formatted == toolCall # NoToolCall /\ toolEvent # NoEvent

MalformedLineArrives(p, line) ==
    /\ p \in DOMAIN procs
    /\ procs[p].listeners
    /\ procs'[p].emitted = procs[p].emitted \o line \o << NL >>
    /\ ~JsonValid(line)

StartsWithBrace(line) == line # << >> /\ Head(line) \in BraceTokens

RunningFor(c) == {p \in SendsOf(sessions[c].sessionId) : Running(p)}

\* C35: the activeProcess slot of a session is set exactly when a subprocess
\* spawned for that session is still running, and then it refers to a
\* running one, whatever the order of createSession, sendMessage,
\* interruptProcess, killSession and subprocess exits.
SlotTracksRunningProcess ==
    \A c \in DOMAIN sessions :
        /\ sessions[c].activeProcess # NoProcess <=> RunningFor(c) # {}
        /\ sessions[c].activeProcess # NoProcess
               => sessions[c].activeProcess \in RunningFor(c)

\* C36: a send is invoked with the resume arguments only when an earlier
\* send of the same session spawned its subprocess; after a first send that
\* failed to spawn, the next one does not resume.
ResumeOnlyAfterSpawn ==
    \A p \in Procs :
        procs[p].spawned /\ procs[p].args = ResumeInvocation(backend, procs[p].session)
            => \E q \in SendsOf(procs[p].session) : q < p /\ procs[q].state # "failed"

\* The updates sent to chat c less than the throttle interval ago.
SentLately(c) ==
    {i \in 1 .. Len(progressSent) :
        /\ progressSent[i].chatId = c
        /\ DateNow - progressSent[i].at < PROGRESS_THROTTLE_MS}

\* C37: an event of type user_input_needed, plan_start, plan_exit or working
\* is always sent on; an event of another type is dropped exactly when an
\* update was sent to the same chat less than 10 seconds before; what is
\* sent, of whatever type, counts from then on for that chat and no other.
ThrottleByChatAndType ==
    [][\A c \in Chats : \A type \in ProgressTypes :
           SendProgressUpdate(c, type) =>
               LET dropped == progressSent' = progressSent
                   sent == progressSent'
                               = Append(progressSent,
                                        [chatId |-> c, type |-> type, at |-> DateNow])
               IN  /\ dropped \/ sent
                   /\ dropped <=>
                          /\ type \notin {"user_input_needed", "plan_start",
                                           "plan_exit", "working"}
                          /\ SentLately(c) # {}]_vars

\* Three events at one instant: a tool event for each chat went out, the
\* second tool event of one chat did not.
SecondToolEventDropped ==
    /\ progressCalls = 3
    /\ Len(progressSent) = 2
    /\ \A i \in 1 .. 2 : progressSent[i].type = "tool_use"
    /\ progressSent[1].chatId # progressSent[2].chatId
    /\ progressSent[1].at = progressSent[2].at

\* C38: the exit of a PTY ends no session but the one that owns that PTY,
\* and the exit of a PTY whose session was ended by killSession is not
\* reported as a session end.
PtyExitEndsOwnSessionOnly ==
    [][\A p \in PtyIds :
           PtyExit(p) =>
               /\ \A c \in Chats : ptySessions[c] # p => ptySessions'[c] = ptySessions[c]
               /\ ptys[p].killed => ptySessionEnd' = ptySessionEnd]_vars

\* The chunks, with nothing or one newline put back at each split point,
\* make up the text.  A split point lies behind every chunk but the last,
\* and behind the last one when the text from there on was one newline too
\* long for maxLength.
RECURSIVE JoinsTo(_, _, _)
JoinsTo(pieces, text, maxLength) ==
    IF pieces = << >> THEN text = << >>
    ELSE LET piece == Head(pieces)
             rest == SubSeq(text, Len(piece) + 1, Len(text))
         IN  /\ Len(piece) <= Len(text)
             /\ SubSeq(text, 1, Len(piece)) = piece
             /\ IF Tail(pieces) = << >>
                THEN \/ rest = << >>
                     \/ rest = << NL >> /\ Len(piece) + 1 > maxLength
                ELSE \/ JoinsTo(Tail(pieces), rest, maxLength)
                     \/ /\ rest # << >> /\ Head(rest) = NL
                        /\ JoinsTo(Tail(pieces), Tail(rest), maxLength)

SplitResultOk ==
    /\ splitDone
    /\ \A i \in 1 .. Len(splitChunks) :
           Len(splitChunks[i]) >= 1 /\ Len(splitChunks[i]) <= splitMax
    /\ JoinsTo(splitChunks, splitText, splitMax)

\* C39: splitMessage(text, maxLength) with maxLength >= 1 returns, and what
\* it returns are non-empty chunks of at most maxLength characters that make
\* up the text when nothing or one newline is put back at each split point.
SplitTerminatesWithChunks == <>[]SplitResultOk

\* A text of two lines was split at its newline, which went away, and the
\* second line was split again for its length.
SplitAtNewlineAndByLength ==
    /\ splitDone
    /\ splitText = << "a", "a", NL, "a", "a", "a" >>
    /\ splitMax = 2
    /\ splitChunks = << << "a", "a" >>, << "a", "a" >>, << "a" >> >>

====
